---- MODULE Spec2Model ----
(***************************************************************************)
(* Model of the two-level retry-and-recovery engine of Agent-Dzeck-Ai:     *)
(*   - sources/orchestrator.py: ExecutionPlan, AutonomousOrchestrator      *)
(*     (get_next_step, create_plan_from_tasks, execute_step, reflect,      *)
(*     revise_plan, run_loop);                                             *)
(*   - sources/agents/code_agent.py: CoderAgent._self_correct_execution    *)
(*     and its helpers.                                                    *)
(* Texts are TLA+ strings; substring tests, lower-casing and truncation    *)
(* are computed character by character, as Python computes them.           *)
(***************************************************************************)
EXTENDS Integers, Sequences, FiniteSets, TLC

VARIABLES
    agents,                 \* orchestrator.agents: the keys of the registry, in dict order
    steps,                  \* plan.steps: sequence of TaskStep records
    reflection_log,         \* plan.reflection_log
    execution_memory,       \* orchestrator.execution_memory: the entries appended since the loop head
    iteration,              \* run_loop local
    max_iterations,         \* run_loop local
    consecutive_failures,   \* run_loop local
    pc,                     \* position of the flow of control
    cur,                    \* run_loop local `step` (index into steps, 0 = none)
    result,                 \* run_loop local `result`
    success,                \* run_loop local `success`
    history,                \* ghost: (step id, success) of each execute_step call, in order
    last,                   \* ghost: the calls made by the execute_step call in flight
    revise_log,             \* ghost: one record per revise_plan call made by run_loop
    sc,                     \* state of one CoderAgent._self_correct_execution call
    stop,                   \* the stop flag a caller sets from outside the run
    proc,                   \* state of one CoderAgent.process call
    required_infos,         \* run_loop local: (key, text) pairs in dict order, <<>> for None
    ws_manager,             \* orchestrator.ws_manager: "absent", "present" or "failing"
    sb                      \* one call of execute_modules_with_sandbox

vars == <<agents, steps, reflection_log, execution_memory, iteration,
          max_iterations, consecutive_failures, pc, cur, result, success,
          history, last, revise_log, sc, stop, proc, required_infos, ws_manager,
          sb>>

(***************************************************************************)
(* Bounds of the model.                                                    *)
(***************************************************************************)
MaxTasks == 2
MaxRevisions == 2
MaxRegistry == 2

(***************************************************************************)
(* Python text primitives.                                                 *)
(***************************************************************************)
Upper == "ABCDEFGHIJKLMNOPQRSTUVWXYZ"
LowerAlpha == "abcdefghijklmnopqrstuvwxyz"
DigitChars == "0123456789"

\* position of the one-character string c in s, 0 when absent
IndexOf(c, s) ==
    IF \E i \in 1..Len(s) : SubSeq(s, i, i) = c
    THEN CHOOSE i \in 1..Len(s) : SubSeq(s, i, i) = c
    ELSE 0

LowerChar(c) ==
    LET k == IndexOf(c, Upper) IN IF k = 0 THEN c ELSE SubSeq(LowerAlpha, k, k)

RECURSIVE LowerFrom(_, _)
\* the lower-cased characters of s from position i on
LowerFrom(s, i) ==
    IF i > Len(s) THEN "" ELSE LowerChar(SubSeq(s, i, i)) \o LowerFrom(s, i + 1)

\* str.lower()
lower(s) == LowerFrom(s, 1)

\* `p in t` for strings
Contains(t, p) ==
    \E i \in 1..(Len(t) - Len(p) + 1) : SubSeq(t, i, i + Len(p) - 1) = p

\* t[:n]
Trunc(t, n) == IF Len(t) <= n THEN t ELSE SubSeq(t, 1, n)

\* the regular-expression class \w
IsWordChar(c) ==
    \/ IndexOf(c, Upper) # 0
    \/ IndexOf(c, LowerAlpha) # 0
    \/ IndexOf(c, DigitChars) # 0
    \/ c = "_"

CharAt(t, i) == IF i >= 1 /\ i <= Len(t) THEN SubSeq(t, i, i) ELSE ""

RECURSIVE IntToStr(_)
\* str(n) for a non-negative int
IntToStr(n) ==
    IF n < 10 THEN SubSeq(DigitChars, n + 1, n + 1)
    ELSE IntToStr(n \div 10) \o SubSeq(DigitChars, (n % 10) + 1, (n % 10) + 1)

\* Python values that occur as dependency identifiers: str or int
PyStr(s) == [ty |-> "str", s |-> s, n |-> 0]
PyInt(n) == [ty |-> "int", s |-> "", n |-> n]
\* str(x)
str(x) == IF x.ty = "int" THEN IntToStr(x.n) ELSE x.s

(***************************************************************************)
(* TaskStep and ExecutionPlan.                                             *)
(***************************************************************************)
DefaultMaxAttempts == 3

TaskStep(id, description, agent_type, max_attempts, dependencies) ==
    [id |-> id, description |-> description, agent_type |-> agent_type,
     status |-> "pending", result |-> "", error |-> "", attempts |-> 0,
     max_attempts |-> max_attempts, dependencies |-> dependencies]

\* next((s for s in self.steps if str(s.id) == str(dep_id)), None): index or 0
DepStep(plan, dep_id) ==
    LET m == {k \in 1..Len(plan) : IntToStr(plan[k].id) = str(dep_id)}
    IN IF m = {} THEN 0 ELSE CHOOSE k \in m : \A j \in m : k <= j

DepsMet(plan, i) ==
    \A d \in 1..Len(plan[i].dependencies) :
        LET k == DepStep(plan, plan[i].dependencies[d])
        IN ~(k # 0 /\ plan[k].status # "completed")

\* get_next_step preferring the ready step with the fewest attempts
get_next_stepFewestAttempts(plan) ==
    LET r == {i \in 1..Len(plan) : plan[i].status = "pending" /\ DepsMet(plan, i)}
    IN IF r = {} THEN 0
       ELSE CHOOSE i \in r :
               \A j \in r : \/ plan[i].attempts < plan[j].attempts
                             \/ (plan[i].attempts = plan[j].attempts /\ i <= j)

\* get_next_step without the test of line 37 against failed steps
get_next_stepRedispatchFailed(plan) ==
    LET r == {i \in 1..Len(plan) : plan[i].status \in {"pending", "failed"} /\ DepsMet(plan, i)}
    IN IF r = {} THEN 0 ELSE CHOOSE i \in r : \A j \in r : i <= j

\* ExecutionPlan.get_next_step: index of the returned step, 0 for None
get_next_step(plan) ==
    LET r == {i \in 1..Len(plan) : plan[i].status = "pending" /\ DepsMet(plan, i)}
    IN IF r = {} THEN 0 ELSE CHOOSE i \in r : \A j \in r : i <= j

\* ExecutionPlan.is_complete
is_complete(plan) ==
    \A i \in 1..Len(plan) : plan[i].status \in {"completed", "failed"}

(***************************************************************************)
(* create_plan_from_tasks.  A task is (task_name, task_info); task_info    *)
(* may lack 'agent', and 'need' is absent, a list or a single string.      *)
(***************************************************************************)
NeedAbsent == [kind |-> "absent", items |-> <<>>, s |-> ""]
NeedList(l) == [kind |-> "list", items |-> l, s |-> ""]
NeedStr(x) == [kind |-> "str", items |-> <<>>, s |-> x]

\* task_info: 'task' (the description), 'agent' ("" when the key is absent), 'need'
Task(task, agent, need) == [task |-> task, agent |-> agent, need |-> need]

TaskDeps(need) ==
    IF need.kind = "str"
    THEN (IF need.s # "" THEN <<PyStr(need.s)>> ELSE <<>>)
    ELSE need.items

RECURSIVE PlanOf(_, _)
PlanOf(agent_tasks, i) ==
    IF i > Len(agent_tasks) THEN <<>>
    ELSE <<TaskStep(i, agent_tasks[i].task,
                    IF agent_tasks[i].agent = "" THEN "coder" ELSE agent_tasks[i].agent,
                    DefaultMaxAttempts, TaskDeps(agent_tasks[i].need))>>
         \o PlanOf(agent_tasks, i + 1)

create_plan_from_tasks(agent_tasks) == PlanOf(agent_tasks, 1)

(***************************************************************************)
(* Collaborators.  A worker's process() returns (answer, success flag) or  *)
(* raises; the browse worker returns an answer or raises.                  *)
(***************************************************************************)
ErrNoModule == "ModuleNotFoundError: No module named 'foo'"
AnswerOk == "done"
FaultText == "boom"

Ret(answer, ok) == [kind |-> "ret", answer |-> answer, success |-> ok]
Raise(msg) == [kind |-> "raise", answer |-> msg, success |-> FALSE]

WorkerOutcomes ==
    {Ret(AnswerOk, TRUE), Ret(ErrNoModule, FALSE), Raise(FaultText)}

BrowseOutcomes ==
    {Ret("", TRUE), Ret("Run: pip install foo", TRUE), Raise(FaultText)}

(***************************************************************************)
(* execute_step.                                                           *)
(***************************************************************************)
InRegistry(reg, key) == \E k \in 1..Len(reg) : reg[k] = key

StartsWith(key, p) == Len(key) >= Len(p) /\ SubSeq(key, 1, Len(p)) = p

\* the resolution with the prefix match tried before the exact match
ResolveAgentKeyPrefixFirst(reg, agent_type) ==
    LET agent_key == lower(agent_type)
        m == {k \in 1..Len(reg) : StartsWith(reg[k], Trunc(agent_key, 3))}
    IN IF m # {} THEN reg[CHOOSE k \in m : \A j \in m : k <= j]
       ELSE IF InRegistry(reg, agent_key) THEN agent_key
       ELSE "coder"

\* lines 260-267: the key used to index self.agents
ResolveAgentKey(reg, agent_type) ==
    LET agent_key == lower(agent_type)
        m == {k \in 1..Len(reg) : StartsWith(reg[k], Trunc(agent_key, 3))}
    IN IF InRegistry(reg, agent_key) THEN agent_key
       ELSE IF m # {} THEN reg[CHOOSE k \in m : \A j \in m : k <= j]
       ELSE "coder"

\* re.search(r"<prefix>['\"]?(\w+)", t): start of group 1 of the leftmost match, 0 if none
QuotedWordStart(t, prefix, i) ==
    IF SubSeq(t, i, i + Len(prefix) - 1) # prefix THEN 0
    ELSE LET j == i + Len(prefix)
         IN IF IsWordChar(CharAt(t, j)) THEN j
            ELSE IF CharAt(t, j) \in {"'", "\""} /\ IsWordChar(CharAt(t, j + 1)) THEN j + 1
            ELSE 0

NoModuleNameStart(t) ==
    LET m == {i \in 1..(Len(t) - 15) : QuotedWordStart(t, "no module named ", i) # 0}
    IN IF m = {} THEN 0
       ELSE QuotedWordStart(t, "no module named ", CHOOSE i \in m : \A j \in m : i <= j)

\* re.search(r"pip install (\w[\w\-]*)", t): start of group 1, 0 if none
PipInstallNameStart(t) ==
    LET m == {i \in 1..(Len(t) - 11) :
                 /\ SubSeq(t, i, i + 11) = "pip install "
                 /\ IsWordChar(CharAt(t, i + 12))}
    IN IF m = {} THEN 0 ELSE (CHOOSE i \in m : \A j \in m : i <= j) + 12

RECURSIVE WordRun(_, _)
\* the maximal run of \w characters of t from position j
WordRun(t, j) ==
    IF IsWordChar(CharAt(t, j)) THEN CharAt(t, j) \o WordRun(t, j + 1) ELSE ""

\* _handle_install_failure_with_browsing, lines 215-223: does it go on to browse?
InstallFailureDetected(error_text) ==
    LET error_lower == lower(error_text)
    IN /\ \/ Contains(error_lower, "no module named")
          \/ Contains(error_lower, "pip install")
          \/ Contains(error_lower, "modulenotfounderror")
       /\ \/ NoModuleNameStart(error_lower) # 0
          \/ PipInstallNameStart(error_lower) # 0

\* _coder_browse_for_install: the text returned for a browse outcome b
BrowseResult(b) == IF b.kind = "raise" THEN "" ELSE Trunc(b.answer, 1500)

MemEntry(step, agent_key, o, retry) ==
    [step_id |-> step.id, agent |-> agent_key, success |-> o.success,
     answer_preview |-> Trunc(o.answer, 200), retry_with_browse |-> retry]

Outcome(res, ok, mem, calls, browse, fault) ==
    [result |-> res, success |-> ok, mem |-> mem, calls |-> calls,
     browse |-> browse, fault |-> fault]

\* lines 323-350: what follows a first call o1 that returned
AfterFirstCall(step, reg, agent_key, mem1, o1) ==
    IF ~o1.success /\ agent_key = "coder" /\ InstallFailureDetected(o1.answer)
       /\ InRegistry(reg, "web")
    THEN UNION {
           IF BrowseResult(b) = ""
           THEN {Outcome(o1.answer, o1.success, mem1, 1, 1, FALSE)}
           ELSE {IF o2.kind = "raise"
                 THEN Outcome("Error: " \o o2.answer, FALSE, mem1, 2, 1, TRUE)
                 ELSE Outcome(o2.answer, o2.success,
                              Append(mem1, MemEntry(step, agent_key, o2, TRUE)),
                              2, 1, FALSE)
                 : o2 \in WorkerOutcomes}
           : b \in BrowseOutcomes}
    ELSE {Outcome(o1.answer, o1.success, mem1, 1, 0, FALSE)}

\* lines 311-362: every (answer, success) execute_step can return for the step
ExecOutcomes(step, reg, mem) ==
    LET agent_key == ResolveAgentKey(reg, step.agent_type)
    IN UNION {
         IF o1.kind = "raise"
         THEN {Outcome("Error: " \o o1.answer, FALSE, mem, 1, 0, TRUE)}
         ELSE AfterFirstCall(step, reg, agent_key,
                             Append(mem, MemEntry(step, agent_key, o1, FALSE)), o1)
         : o1 \in WorkerOutcomes}

(***************************************************************************)
(* reflect.                                                                *)
(***************************************************************************)
\* reflect without the assignments of the error text (lines 375 and 379)
ReflectStepNoError(step, res, ok) ==
    IF ok
    THEN [step EXCEPT !.status = "completed", !.result = res]
    ELSE IF step.attempts + 1 >= step.max_attempts
         THEN [step EXCEPT !.attempts = @ + 1, !.status = "failed"]
         ELSE [step EXCEPT !.attempts = @ + 1, !.status = "pending"]

\* reflect without the increment of line 371
ReflectStepNoCount(step, res, ok) ==
    IF ok
    THEN [step EXCEPT !.status = "completed", !.result = res]
    ELSE IF step.attempts >= step.max_attempts
         THEN [step EXCEPT !.status = "failed", !.error = res]
         ELSE [step EXCEPT !.status = "pending", !.error = res]

\* reflect with the budget test written `>`: one attempt too many
ReflectStepLate(step, res, ok) ==
    IF ok
    THEN [step EXCEPT !.status = "completed", !.result = res]
    ELSE IF step.attempts + 1 > step.max_attempts
         THEN [step EXCEPT !.attempts = @ + 1, !.status = "failed", !.error = res]
         ELSE [step EXCEPT !.attempts = @ + 1, !.status = "pending", !.error = res]

\* reflect with the budget test made before the increment is counted: one attempt too few
ReflectStepEarly(step, res, ok) ==
    IF ok
    THEN [step EXCEPT !.status = "completed", !.result = res]
    ELSE IF step.attempts + 2 >= step.max_attempts
         THEN [step EXCEPT !.attempts = @ + 1, !.status = "failed", !.error = res]
         ELSE [step EXCEPT !.attempts = @ + 1, !.status = "pending", !.error = res]

\* reflect counting every dispatch, the successful one included
ReflectStepCountAll(step, res, ok) ==
    IF ok
    THEN [step EXCEPT !.attempts = @ + 1, !.status = "completed", !.result = res]
    ELSE IF step.attempts + 1 >= step.max_attempts
         THEN [step EXCEPT !.attempts = @ + 1, !.status = "failed", !.error = res]
         ELSE [step EXCEPT !.attempts = @ + 1, !.status = "pending", !.error = res]

ReflectStep(step, res, ok) ==
    IF ok
    THEN [step EXCEPT !.status = "completed", !.result = res]
    ELSE IF step.attempts + 1 >= step.max_attempts
         THEN [step EXCEPT !.attempts = @ + 1, !.status = "failed", !.error = res]
         ELSE [step EXCEPT !.attempts = @ + 1, !.status = "pending", !.error = res]

ReflectLine(step, ok) ==
    IF ok
    THEN "Langkah " \o IntToStr(step.id) \o " berhasil: " \o step.description
    ELSE IF step.attempts + 1 >= step.max_attempts
         THEN "Langkah " \o IntToStr(step.id) \o " gagal setelah "
              \o IntToStr(step.max_attempts) \o " percobaan: " \o step.description
         ELSE "Langkah " \o IntToStr(step.id) \o " gagal (percobaan "
              \o IntToStr(step.attempts + 1) \o "/" \o IntToStr(step.max_attempts)
              \o "), akan dicoba lagi"

(***************************************************************************)
(* revise_plan.                                                            *)
(***************************************************************************)
\* the suffix appended at lines 440-444 and 484-488
ErrorSuffix(error) ==
    "\n\nERROR SEBELUMNYA:\n" \o Trunc(IF error = "" THEN "Unknown error" ELSE error, 500)
    \o "\nINSTRUKSI: Gunakan pendekatan BERBEDA. Jangan ulangi cara yang sama. "
    \o "Kamu dilarang meminta klarifikasi, langsung eksekusi."

\* the chain with the permission test moved in front of the missing-dependency test
FailureCategoryPermissionFirst(error) ==
    LET error_lower == lower(error)
    IN IF Contains(error_lower, "permission") \/ Contains(error_lower, "access denied")
       THEN "permission"
       ELSE IF Contains(error_lower, "no module named") \/ Contains(error_lower, "import")
       THEN "missing_dependency"
       ELSE IF Contains(error_lower, "syntax") \/ Contains(error_lower, "syntaxerror")
       THEN "syntax"
       ELSE IF Contains(error_lower, "timeout") \/ Contains(error_lower, "connection")
       THEN "timeout"
       ELSE "generic"

\* the branch of the if/elif chain of lines 404-482 taken for an error text
FailureCategory(error) ==
    LET error_lower == lower(error)
    IN IF Contains(error_lower, "no module named") \/ Contains(error_lower, "import")
       THEN "missing_dependency"
       ELSE IF Contains(error_lower, "permission") \/ Contains(error_lower, "access denied")
       THEN "permission"
       ELSE IF Contains(error_lower, "syntax") \/ Contains(error_lower, "syntaxerror")
       THEN "syntax"
       ELSE IF Contains(error_lower, "timeout") \/ Contains(error_lower, "connection")
       THEN "timeout"
       ELSE "generic"

\* the lookup with the lower-cased tag as its default
AlternativeAgentLowered(agent_type) ==
    LET k == lower(agent_type)
    IN IF k = "coder" THEN "file"
       ELSE IF k = "file" THEN "coder"
       ELSE IF k = "web" THEN "casual"
       ELSE IF k = "casual" THEN "coder"
       ELSE k

\* alternative_agents.get(agent_type.lower(), agent_type), lines 473-479
AlternativeAgent(agent_type) ==
    LET k == lower(agent_type)
    IN IF k = "coder" THEN "file"
       ELSE IF k = "file" THEN "coder"
       ELSE IF k = "web" THEN "casual"
       ELSE IF k = "casual" THEN "coder"
       ELSE agent_type

\* lines 405-406
ModuleName(error_lower) ==
    LET j == NoModuleNameStart(error_lower)
    IN IF j = 0 THEN "yang dibutuhkan" ELSE WordRun(error_lower, j)

\* the two steps with the retry step given the failed step's dependencies
MissingDependencyStepsUnchained(plan, failed_step) ==
    <<TaskStep(Len(plan) + 1, "[MULTI-TOOL BROWSE]", "web", 2, failed_step.dependencies),
      TaskStep(Len(plan) + 2, "[RECOVERY - INSTALL DEPENDENCY WITH BROWSER INFO]",
               "coder", 2, failed_step.dependencies)>>

\* the two steps with the retry step numbered before the browse step is appended
MissingDependencyStepsSameId(plan, failed_step) ==
    <<TaskStep(Len(plan) + 1, "[MULTI-TOOL BROWSE]", "web", 2, failed_step.dependencies),
      TaskStep(Len(plan) + 1, "[RECOVERY - INSTALL DEPENDENCY WITH BROWSER INFO]",
               "coder", 2, <<PyStr(IntToStr(Len(plan) + 1))>>)>>

\* lines 404-448: the browse step and the retry step
MissingDependencySteps(plan, failed_step) ==
    LET module_name == ModuleName(lower(failed_step.error))
        browse_step ==
            TaskStep(Len(plan) + 1,
                     "[MULTI-TOOL BROWSE] Cari cara install library '" \o module_name
                     \o "' di Linux/Ubuntu. Cari di web: 'how to install " \o module_name
                     \o " python pip Linux'. Catat perintah install yang benar.",
                     "web", 2, failed_step.dependencies)
        retry_step ==
            TaskStep(Len(plan) + 2,
                     "[RECOVERY - INSTALL DEPENDENCY WITH BROWSER INFO] "
                     \o "Gunakan informasi dari langkah browsing sebelumnya untuk install '"
                     \o module_name \o "'. Lalu ulangi tugas asli: "
                     \o failed_step.description \o ErrorSuffix(failed_step.error),
                     "coder", 2, <<PyStr(IntToStr(browse_step.id))>>)
    IN <<browse_step, retry_step>>

\* the permission branch without its reassignment of recovery_agent
RecoveryAgentNoReassign(failed_step) ==
    LET c == FailureCategory(failed_step.error)
    IN IF c = "permission" THEN lower(failed_step.agent_type)
       ELSE IF c = "syntax" THEN "coder"
       ELSE IF c = "timeout" THEN "web"
       ELSE AlternativeAgent(failed_step.agent_type)

\* lines 450-482: (recovery_agent, recovery_description) of the single retry step
RecoveryAgent(failed_step) ==
    LET c == FailureCategory(failed_step.error)
    IN IF c = "permission" THEN "file"
       ELSE IF c = "syntax" THEN "coder"
       ELSE IF c = "timeout" THEN "web"
       ELSE AlternativeAgent(failed_step.agent_type)

RecoveryDescription(failed_step) ==
    LET c == FailureCategory(failed_step.error)
    IN IF c = "permission"
       THEN "[RECOVERY - FIX PERMISSIONS] Perbaiki permission/akses file yang bermasalah, "
            \o "lalu ulangi tugas: " \o failed_step.description
       ELSE IF c = "syntax"
       THEN "[RECOVERY - FIX SYNTAX] Perbaiki syntax error dalam kode. "
            \o "Baca file yang bermasalah, identifikasi error syntax, dan perbaiki. "
            \o "Tugas asli: " \o failed_step.description
       ELSE IF c = "timeout"
       THEN "[RECOVERY - RETRY CONNECTION] "
            \o "Coba lagi dengan query pencarian berbeda atau URL alternatif. "
            \o "Tugas asli: " \o failed_step.description
       ELSE "[RECOVERY] Coba lagi dengan pendekatan berbeda: " \o failed_step.description

\* lines 484-497
SingleRetryStep(plan, failed_step) ==
    TaskStep(Len(plan) + 1,
             RecoveryDescription(failed_step) \o ErrorSuffix(failed_step.error),
             RecoveryAgent(failed_step), 2, failed_step.dependencies)

\* revise_plan(plan.steps[f]): the plan's steps afterwards
revise_plan(plan, f) ==
    IF FailureCategory(plan[f].error) = "missing_dependency"
    THEN plan \o MissingDependencySteps(plan, plan[f])
    ELSE Append(plan, SingleRetryStep(plan, plan[f]))

(***************************************************************************)
(* run_loop.                                                               *)
(***************************************************************************)
DeadlockError == "Dependency deadlock: langkah yang dibutuhkan gagal"

\* the deadlock policy without the assignment of line 795
MarkDeadlockedNoError(plan) ==
    [i \in 1..Len(plan) |->
        IF plan[i].status = "pending"
        THEN [plan[i] EXCEPT !.status = "failed"]
        ELSE plan[i]]

\* the deadlock policy applied to every step, whatever its status
MarkDeadlockedAll(plan) ==
    [i \in 1..Len(plan) |->
        [plan[i] EXCEPT !.status = "failed", !.error = DeadlockError]]

\* lines 792-795
MarkDeadlocked(plan) ==
    [i \in 1..Len(plan) |->
        IF plan[i].status = "pending"
        THEN [plan[i] EXCEPT !.status = "failed", !.error = DeadlockError]
        ELSE plan[i]]

\* prev_step.result[:n] if prev_step.result else ""
ResultPreview(step, n) == Trunc(step.result, n)

\* lines 803-806: `str(prev_step.id) in step.dependencies` is list membership,
\* and a str is never equal to an int
DependencyResults(plan, i) ==
    LET hit(k) == /\ \E d \in 1..Len(plan[i].dependencies) :
                        plan[i].dependencies[d] = PyStr(IntToStr(plan[k].id))
                  /\ plan[k].status = "completed"
    IN [j \in 1..Len(SelectSeq([k \in 1..Len(plan) |-> k], hit)) |->
          LET k == SelectSeq([x \in 1..Len(plan) |-> x], hit)[j]
          IN <<IntToStr(plan[k].id), ResultPreview(plan[k], 500)>>]

\* lines 808-811: the completed steps before the step
EarlierResults(plan, i) ==
    LET hit(k) == plan[k].id < plan[i].id /\ plan[k].status = "completed"
    IN [j \in 1..Len(SelectSeq([k \in 1..Len(plan) |-> k], hit)) |->
          LET k == SelectSeq([x \in 1..Len(plan) |-> x], hit)[j]
          IN <<IntToStr(plan[k].id), ResultPreview(plan[k], 300)>>]

\* lines 803-811: the context collected for the step about to be dispatched
RequiredInfos(plan, i) ==
    IF DependencyResults(plan, i) # <<>>
    THEN DependencyResults(plan, i)
    ELSE EarlierResults(plan, i)

\* the iteration budget with 1 iteration per step
IterationBudgetOne(plan) == Len(plan)

\* the iteration budget with 2 iterations per step
IterationBudgetTwo(plan) == Len(plan) * 2

\* line 782
IterationBudget(plan) == Len(plan) * 4

\* line 786
LoopContinues(plan, it, maxit) == ~is_complete(plan) /\ it < maxit

\* the counter of lines 821-824 without the reset of line 822
CountFailureNoReset(cf, ok) == IF ok THEN cf ELSE cf + 1

\* lines 821-824: the consecutive-failure counter after a dispatch
CountFailure(cf, ok) == IF ok THEN 0 ELSE cf + 1

\* the circuit breaker with its threshold off by one
RevisionAllowedOffByOne(cf) == cf <= 3

\* line 827
RevisionAllowed(cf) == cf < 3

NoSC == [pc |-> "off"]

NoProc == [pc |-> "off"]
NoSB == [pc |-> "off"]

NoDispatch == [calls |-> 0, browse |-> 0, fault |-> FALSE]

\* the task lists and registries a run is started with
TaskChoices ==
    {Task("write a.py", "coder", NeedAbsent),
     Task("write b.py", "coder", NeedList(<<PyStr("1")>>)),
     Task("search docs", "web", NeedList(<<PyStr("99")>>)),
     Task("tidy up", "", NeedStr("2")),
     Task("port it", "Coding", NeedList(<<PyInt(1)>>))}

TaskLists == UNION {[1..n -> TaskChoices] : n \in 0..MaxTasks}

Registries == {<<"coder", "web", "file", "casual">>, <<"coder">>, <<"web">>}

Init ==
    /\ agents \in Registries
    /\ stop = FALSE
    /\ proc = NoProc
    /\ required_infos = <<>>
    /\ ws_manager = "absent"
    /\ sb = NoSB
    /\ \E agent_tasks \in TaskLists : steps = create_plan_from_tasks(agent_tasks)
    /\ reflection_log = <<>>
    /\ execution_memory = <<>>
    /\ iteration = 0
    /\ max_iterations = IterationBudget(steps)
    /\ consecutive_failures = 0
    /\ pc = "loop"
    /\ cur = 0
    /\ result = ""
    /\ success = FALSE
    /\ history = <<>>
    /\ last = NoDispatch
    /\ revise_log = <<>>
    /\ sc = NoSC

\* the settings of the notifier: none, one whose calls return, one whose
\* every call raises
NotifierModes == {"absent", "present", "failing"}

\* a notifier call without the try/except of lines 123-126
NotifyOutcomeUnguarded(ws) ==
    IF ws = "absent" THEN "skipped"
    ELSE IF ws = "failing" THEN "raised"
    ELSE "sent"

\* _notify_status, _notify_plan, _send_peor, _send_progress and the guarded
\* broadcasts: skipped without a notifier, and an exception is swallowed
NotifyOutcome(ws) ==
    IF ws = "absent" THEN "skipped"
    ELSE IF ws = "failing" THEN "swallowed"
    ELSE "sent"

\* the notifier calls of an iteration leave run_loop in control
Notified(ws) == NotifyOutcome(ws) # "raised"

\* lines 786-813: the loop test, the choice of the next step, the deadlock policy.
\* run_loop never reads execution_memory and execute_step only appends to it:
\* the entries of earlier iterations are dropped from the model's state here.
LoopHeadWith(ws) ==
    /\ pc = "loop"
    /\ IF ~LoopContinues(steps, iteration, max_iterations)
       THEN /\ pc' = "done"
            /\ UNCHANGED <<steps, iteration, cur, required_infos>>
       ELSE IF get_next_step(steps) = 0
       THEN /\ steps' = MarkDeadlocked(steps)
            /\ pc' = "done"
            /\ UNCHANGED <<iteration, cur, required_infos>>
       ELSE /\ cur' = get_next_step(steps)
            /\ iteration' = iteration + 1
            /\ required_infos' = RequiredInfos(steps, get_next_step(steps))
            /\ pc' = IF Notified(ws) THEN "execute" ELSE "fault"
            /\ UNCHANGED steps
    /\ last' = NoDispatch
    /\ execution_memory' = <<>>
    /\ UNCHANGED <<sb, ws_manager, proc, stop, agents, reflection_log, max_iterations,
                   consecutive_failures, result, success, history, revise_log, sc>>

LoopHead == LoopHeadWith(ws_manager)

\* line 814: the call of execute_step; a KeyError at line 269 leaves run_loop
ExecuteStepWith(ws) ==
    /\ pc = "execute"
    /\ IF ~Notified(ws)
       THEN /\ pc' = "fault"
            /\ UNCHANGED <<steps, result, success, execution_memory, last, history>>
       ELSE IF ~InRegistry(agents, ResolveAgentKey(agents, steps[cur].agent_type))
       THEN /\ steps' = [steps EXCEPT ![cur].status = "running"]
            /\ pc' = "fault"
            /\ success' = FALSE
            /\ last' = [NoDispatch EXCEPT !.fault = TRUE]
            /\ history' = Append(history, [id |-> steps[cur].id, success |-> FALSE])
            /\ UNCHANGED <<result, execution_memory>>
       ELSE \E o \in ExecOutcomes(steps[cur], agents, execution_memory) :
            /\ steps' = [steps EXCEPT ![cur].status = "running"]
            /\ result' = o.result
            /\ success' = o.success
            /\ execution_memory' = o.mem
            /\ last' = [calls |-> o.calls, browse |-> o.browse, fault |-> o.fault]
            /\ history' = Append(history, [id |-> steps[cur].id, success |-> o.success])
            /\ pc' = "reflect"
    /\ UNCHANGED <<sb, ws_manager, required_infos, proc, stop, agents, reflection_log, iteration,
                   max_iterations, consecutive_failures, cur, revise_log, sc>>

ExecuteStep == ExecuteStepWith(ws_manager)

\* lines 816-839: reflect, the consecutive-failure counter, the revision
ReflectReviseWith(ws) ==
    /\ pc = "reflect"
    /\ LET reflected == [steps EXCEPT ![cur] = ReflectStep(steps[cur], result, success)]
           cf == CountFailure(consecutive_failures, success)
       IN IF ~Notified(ws)
          THEN UNCHANGED <<reflection_log, consecutive_failures, steps, revise_log>>
          ELSE
          /\ reflection_log' = Append(reflection_log, ReflectLine(steps[cur], success))
          /\ consecutive_failures' = cf
          /\ IF ~success /\ reflected[cur].status = "failed" /\ RevisionAllowed(cf)
             THEN /\ steps' = revise_plan(reflected, cur)
                  /\ revise_log' = Append(revise_log,
                                          [id |-> reflected[cur].id,
                                           status |-> reflected[cur].status,
                                           attempts |-> reflected[cur].attempts,
                                           cf |-> cf,
                                           before |-> Len(reflected)])
             ELSE /\ steps' = reflected
                  /\ UNCHANGED revise_log
    /\ pc' = IF Notified(ws) THEN "loop" ELSE "fault"
    /\ UNCHANGED <<sb, ws_manager, required_infos, proc, stop, agents, execution_memory, iteration,
                   max_iterations, cur, result, success, history, last, sc>>

ReflectRevise == ReflectReviseWith(ws_manager)

Next == LoopHead \/ ExecuteStep \/ ReflectRevise

Spec == Init /\ [][Next]_vars

\* the positions of run_loop and those at which a statement is still to be executed
Positions == {"loop", "execute", "reflect", "done", "fault"}
Running == {"loop", "execute", "reflect"}

\* the flow of control moves on: every step of Next changes pc, and a step of
\* Next is possible exactly at the positions of Running
Advance == pc \in Running /\ pc' \in Positions /\ pc' # pc

\* run_loop is one sequential coroutine: as long as every awaited call returns,
\* the statement it stands at is executed
SpecLive == Init /\ [][Next]_vars /\ WF_pc(Advance)

\* a caller sets the stop flag while run_loop is suspended at an await
SetStop ==
    /\ pc \in Running
    /\ ~stop
    /\ stop' = TRUE
    /\ UNCHANGED <<sb, ws_manager, required_infos, agents, steps, reflection_log, execution_memory, iteration,
                   max_iterations, consecutive_failures, pc, cur, result, success,
                   history, last, revise_log, sc, proc>>

NextStop == Next \/ SetStop

\* a run during which the stop flag may be set
SpecStop == Init /\ [][NextStop]_vars

(***************************************************************************)
(* Properties of a run (specification Spec).                               *)
(***************************************************************************)
InitialSteps == max_iterations \div 4

\* the success flags of the dispatches of the step with identifier id, in order
DispatchesOf(id) ==
    LET own == SelectSeq(history, LAMBDA h : h.id = id)
    IN [k \in 1..Len(own) |-> own[k].success]

FailedDispatches(id) ==
    Cardinality({k \in 1..Len(history) : history[k].id = id /\ ~history[k].success})

Dangling(i) ==
    \E d \in 1..Len(steps[i].dependencies) : DepStep(steps, steps[i].dependencies[d]) = 0

\* C1: the step get_next_step hands to the dispatcher is pending and every one
\* of its dependency identifiers names a step whose status is completed.
C1_ReadyStepHasAllDepsCompleted ==
    pc = "execute" =>
        /\ steps[cur].status = "pending"
        /\ \A d \in 1..Len(steps[cur].dependencies) :
              LET k == DepStep(steps, steps[cur].dependencies[d])
              IN k # 0 /\ steps[k].status = "completed"

\* C2: a step with a dependency identifier that matches no step is never
\* dispatched, and when the run leaves the loop it is failed with the
\* dependency-deadlock error.
C2_DanglingDependencyBlocks ==
    \A i \in 1..Len(steps) :
        Dangling(i) =>
            /\ \A k \in 1..Len(history) : history[k].id # steps[i].id
            /\ pc = "done" => steps[i].status = "failed" /\ steps[i].error = DeadlockError

\* C3: every step, initial or synthesized, has attempts <= max_attempts.
C3_AttemptsWithinBudget ==
    \A i \in 1..Len(steps) : steps[i].attempts <= steps[i].max_attempts

C3_Witness ==
    \E i \in 1..Len(steps) :
        /\ steps[i].attempts = steps[i].max_attempts
        /\ FailedDispatches(steps[i].id) = steps[i].max_attempts

\* C4 as stated: every failed step has attempts = max_attempts.
C4_FailedOnlyAfterMaxAttempts ==
    \A i \in 1..Len(steps) :
        steps[i].status = "failed" => steps[i].attempts = steps[i].max_attempts

\* C4 amended: a failed step either exhausted its budget (attempts =
\* max_attempts = the number of its failed dispatches) or was still pending
\* when the deadlock policy ended the run (deadlock error, attempts below
\* the budget); in both cases attempts counts its failed dispatches.
C4_FailedByBudgetOrDeadlock ==
    \A i \in 1..Len(steps) :
        /\ steps[i].status \in {"pending", "completed", "failed"} =>
              steps[i].attempts = FailedDispatches(steps[i].id)
        /\ steps[i].status = "failed" =>
              \/ steps[i].attempts = steps[i].max_attempts
              \/ /\ pc = "done"
                 /\ steps[i].error = DeadlockError
                 /\ steps[i].attempts < steps[i].max_attempts

C4_Witness ==
    /\ \E i \in 1..Len(steps) :
          /\ steps[i].status = "failed"
          /\ steps[i].error # DeadlockError
          /\ FailedDispatches(steps[i].id) = steps[i].max_attempts
    /\ \E j \in 1..Len(steps) :
          /\ steps[j].status = "failed"
          /\ steps[j].error = DeadlockError
          /\ steps[j].attempts = 0

\* C5: run_loop calls revise_plan only for the step that has just become
\* failed in reflect and only with the consecutive-failure counter below 3;
\* a failure that follows 3 consecutive failures appends no step.
C5_RevisionCircuitBreaker ==
    [][/\ (revise_log' # revise_log \/ Len(steps') # Len(steps)) =>
             /\ pc = "reflect" /\ ~success
             /\ steps[cur].status = "running"
             /\ steps'[cur].status = "failed"
             /\ consecutive_failures' < 3
             /\ Len(revise_log') = Len(revise_log) + 1
             /\ Len(steps') > Len(steps)
       /\ (pc = "reflect" /\ ~success /\ consecutive_failures >= 3) =>
             Len(steps') = Len(steps) /\ revise_log' = revise_log]_vars

C5_Witness ==
    /\ pc = "loop" /\ cur # 0 /\ ~success
    /\ steps[cur].status = "failed"
    /\ steps[cur].attempts = steps[cur].max_attempts
    /\ consecutive_failures >= 4
    /\ Len(steps) = InitialSteps
    /\ revise_log = <<>>

\* C6: once a step has exhausted its attempt budget through failed
\* dispatches, revise_plan has been invoked and the plan holds at least one
\* recovery step more than create_plan_from_tasks built.
C6_FailureTriggersRevision ==
    (\E i \in 1..Len(steps) :
        steps[i].status = "failed" /\ steps[i].attempts = steps[i].max_attempts)
    => (revise_log # <<>> /\ Len(steps) > InitialSteps)

\* the scenario of C7: two code steps, step 2 depends on step 1; step 1 fails
\* once with a missing-module error and then succeeds, step 2 never fails
C7_Scenario ==
    /\ pc = "done"
    /\ InitialSteps = 2
    /\ \A i \in 1..2 : ResolveAgentKey(agents, steps[i].agent_type) = "coder"
    /\ steps[1].dependencies = <<>>
    /\ steps[2].dependencies = <<PyStr("1")>>
    /\ DispatchesOf(1) = <<FALSE, TRUE>>
    /\ Contains(lower(steps[1].error), "no module named")
    /\ \A k \in 1..Len(DispatchesOf(2)) : DispatchesOf(2)[k]

\* C7 as stated: the run ends with both steps completed and step 1's attempts = 2.
C7_EndToEndAttemptsTwo ==
    C7_Scenario =>
        /\ Len(steps) = 2
        /\ \A i \in 1..2 : steps[i].status = "completed"
        /\ steps[1].attempts = 2

\* C7 amended: the run ends with both steps completed (2/2) and step 1's
\* attempt counter equal to 1, the number of its failed dispatches.
C7_EndToEndAttemptsOne ==
    C7_Scenario =>
        /\ Len(steps) = 2
        /\ \A i \in 1..2 : steps[i].status = "completed"
        /\ steps[1].attempts = 1
        /\ steps[2].attempts = 0

C7_Witness == C7_Scenario /\ DispatchesOf(2) = <<TRUE>>

\* C12: reflect is called exactly once per call of execute_step: the two
\* alternate, the reflection log has one line per dispatch, and the step
\* handed to reflect is the one just dispatched, never a completed one.
C12_ReflectOncePerDispatch ==
    /\ pc = "reflect" =>
          /\ steps[cur].status = "running"
          /\ Len(history) = Len(reflection_log) + 1
    /\ pc # "reflect" => Len(history) = Len(reflection_log)

\* C13: when get_next_step returns none inside the loop while a step is
\* pending, every pending step becomes failed with the dependency-deadlock
\* error, every other step is unchanged, nothing is dispatched and the loop
\* is left for good.
C13_DeadlockPolicy ==
    [][/\ (/\ pc = "loop"
           /\ LoopContinues(steps, iteration, max_iterations)
           /\ get_next_step(steps) = 0
           /\ \E i \in 1..Len(steps) : steps[i].status = "pending")
          => /\ Len(steps') = Len(steps)
             /\ \A i \in 1..Len(steps) :
                   IF steps[i].status = "pending"
                   THEN /\ steps'[i].status = "failed"
                        /\ steps'[i].error = DeadlockError
                        /\ steps'[i].attempts = steps[i].attempts
                        /\ steps'[i].result = steps[i].result
                   ELSE steps'[i] = steps[i]
             /\ pc' = "done"
             /\ history' = history
             /\ iteration' = iteration
             /\ reflection_log' = reflection_log
       /\ pc = "done" => pc' = "done" /\ history' = history /\ steps' = steps]_vars

\* C14: whatever the plan, the registry and the outcomes of the worker calls,
\* run_loop leaves its loop and reaches the return of the summary.
C14_RunReturnsSummary == <>(pc = "done")

\* the number of steps create_plan_from_tasks built: the length of the plan
\* before the first revision
InitialLen == IF revise_log = <<>> THEN Len(steps) ELSE revise_log[1].before

\* C15: the iteration counter counts the dispatches, the budget is 4 times the
\* number of steps of the initial plan, and the number of dispatches never
\* exceeds it, whatever revise_plan appended.
C15_IterationBudget ==
    /\ max_iterations = 4 * InitialLen
    /\ iteration = Len(history) + (IF pc = "execute" THEN 1 ELSE 0)
    /\ iteration <= max_iterations
    /\ Len(history) <= 4 * InitialLen

C15_Witness ==
    /\ pc = "done"
    /\ InitialLen = 2
    /\ iteration = 6
    /\ Len(history) = 6
    /\ \A i \in 1..2 : steps[i].status = "failed" /\ steps[i].attempts = 3

\* C16: no fault leaves execute_step: a dispatch never ends in an exception,
\* and a dispatch in which a worker call raised hands ("Error: ...", false)
\* to reflect.
C16_NoFaultLeavesExecuteStep ==
    /\ pc # "fault"
    /\ (pc = "reflect" /\ last.fault) =>
          /\ ~success
          /\ StartsWith(result, "Error: ")

\* C19: one dispatch calls the resolved worker at most twice and the browse
\* worker at most once; a second call is made only after a failed first call
\* of the code worker whose text carries an unmet-dependency signature, and
\* it is recorded as a second execution-memory entry tagged retry_with_browse.
C19_SingleRemediationPass ==
    pc = "reflect" =>
        /\ last.calls \in 1..2
        /\ last.browse \in 0..1
        /\ last.calls = 2 =>
              /\ last.browse = 1
              /\ Len(execution_memory) = 2
              /\ execution_memory[1].step_id = steps[cur].id
              /\ execution_memory[1].agent = "coder"
              /\ ~execution_memory[1].success
              /\ ~execution_memory[1].retry_with_browse
              /\ InstallFailureDetected(execution_memory[1].answer_preview)
              /\ execution_memory[2].step_id = steps[cur].id
              /\ execution_memory[2].agent = "coder"
              /\ execution_memory[2].retry_with_browse

\* C20: reflect on success completes the step, stores the result and leaves
\* attempts alone; on failure it adds one to attempts, stores the error text
\* and sets pending while attempts is below max_attempts, failed otherwise;
\* either way the reflection log gains exactly one line and no other step of
\* the plan changes.
C20_ReflectContract ==
    [][pc = "reflect" =>
         /\ Len(reflection_log') = Len(reflection_log) + 1
         /\ SubSeq(reflection_log', 1, Len(reflection_log)) = reflection_log
         /\ \A i \in 1..Len(steps) : i # cur => steps'[i] = steps[i]
         /\ steps'[cur].id = steps[cur].id
         /\ steps'[cur].max_attempts = steps[cur].max_attempts
         /\ IF success
            THEN /\ steps'[cur].status = "completed"
                 /\ steps'[cur].result = result
                 /\ steps'[cur].attempts = steps[cur].attempts
                 /\ steps'[cur].error = steps[cur].error
            ELSE /\ steps'[cur].attempts = steps[cur].attempts + 1
                 /\ steps'[cur].error = result
                 /\ steps'[cur].result = steps[cur].result
                 /\ steps'[cur].status =
                       IF steps'[cur].attempts < steps[cur].max_attempts
                       THEN "pending" ELSE "failed"]_vars

C20_Witness ==
    /\ pc = "loop"
    /\ Len(steps) = 1
    /\ history = <<[id |-> 1, success |-> FALSE], [id |-> 1, success |-> TRUE]>>
    /\ steps[1].status = "completed"
    /\ steps[1].attempts = 1
    /\ steps[1].error = "Error: " \o FaultText
    /\ steps[1].result = AnswerOk
    /\ Len(reflection_log) = 2

C13_Witness ==
    /\ pc = "done"
    /\ Len(steps) = 2
    /\ steps[1].status = "completed"
    /\ steps[2].status = "failed"
    /\ steps[2].error = DeadlockError
    /\ steps[2].attempts = 0
    /\ Len(history) = 1

\* C24: once the stop flag is set, run_loop dispatches no step at a step
\* boundary: the step in flight is executed and reflected on, and the next
\* evaluation of the loop head starts no further execute_step call.
C24_NoDispatchAfterStop ==
    [][(stop /\ pc = "loop") => pc' # "execute"]_vars

\* C25: every call of execute_step that has ended, by a return or by a fault,
\* has appended at least one entry for its step to the execution record, and
\* no step of a run changes or removes an entry of the record.
C25_DispatchAppendsEntry ==
    /\ [](pc \in {"reflect", "fault"} =>
            /\ Len(execution_memory) >= 1
            /\ \A k \in 1..Len(execution_memory) :
                  execution_memory[k].step_id = steps[cur].id)
    /\ [][pc # "loop" =>
            /\ Len(execution_memory') >= Len(execution_memory)
            /\ SubSeq(execution_memory', 1, Len(execution_memory)) = execution_memory]_vars

\* a step that is pending and whose every dependency identifier names a
\* completed step
Ready(plan, i) ==
    /\ plan[i].status = "pending"
    /\ \A d \in 1..Len(plan[i].dependencies) :
          LET k == DepStep(plan, plan[i].dependencies[d])
          IN k # 0 /\ plan[k].status = "completed"

\* C27: the step run_loop dispatches is ready, and no step before it in the
\* plan is ready.
C27_FirstReadyDispatched ==
    [][(pc = "loop" /\ pc' = "execute") =>
         /\ Ready(steps, cur')
         /\ \A j \in 1..(cur' - 1) : ~Ready(steps, j)]_vars

\* the status changes of the steps of the plan made by one step of the run
StatusChanges ==
    {<<steps[i].status, steps'[i].status>> : i \in {k \in 1..Len(steps) : steps'[k].status # steps[k].status}}

\* C28 as stated: a step changes status only from pending to running, from
\* running to completed, from running to pending or from running to failed.
C28_LifecycleFourTransitions ==
    [][/\ Len(steps') >= Len(steps)
       /\ StatusChanges \subseteq
             {<<"pending", "running">>, <<"running", "completed">>,
              <<"running", "pending">>, <<"running", "failed">>}]_vars

\* C28 amended: besides these four changes, the deadlock policy moves every
\* pending step from pending to failed, with the deadlock error, when the
\* loop head finds no step to dispatch, and the run leaves the loop.
C28_LifecycleWithDeadlock ==
    [][/\ Len(steps') >= Len(steps)
       /\ \A i \in 1..Len(steps) :
             steps'[i].status # steps[i].status =>
                \/ <<steps[i].status, steps'[i].status>> \in
                      {<<"pending", "running">>, <<"running", "completed">>,
                       <<"running", "pending">>, <<"running", "failed">>}
                \/ /\ steps[i].status = "pending" /\ steps'[i].status = "failed"
                   /\ pc = "loop" /\ pc' = "done"
                   /\ get_next_step(steps) = 0
                   /\ steps'[i].error = DeadlockError
                   /\ steps'[i].attempts = steps[i].attempts]_vars

C28_Witness ==
    /\ pc = "done"
    /\ Len(steps) = 2
    /\ steps[1].status = "failed"
    /\ steps[1].error # DeadlockError
    /\ steps[1].attempts = steps[1].max_attempts
    /\ steps[2].status = "failed"
    /\ steps[2].error = DeadlockError
    /\ \A k \in 1..Len(history) : history[k].id = 1

\* the number of failed dispatches since the last successful one
TrailingFailures ==
    LET ok == {k \in 1..Len(history) : history[k].success}
        m == IF ok = {} THEN 0 ELSE CHOOSE k \in ok : \A j \in ok : j <= k
    IN Len(history) - m

\* C33: the consecutive-failure counter is set to zero after a successful
\* dispatch and raised by one after a failed one, and changes at no other
\* place; at every step boundary it is the number of failed dispatches since
\* the last success, or since the start of the run.
C33_ConsecutiveFailureCounter ==
    /\ [](pc \in {"loop", "execute", "done"} => consecutive_failures = TrailingFailures)
    /\ [][consecutive_failures' =
             (IF pc # "reflect" THEN consecutive_failures
              ELSE IF success THEN 0
              ELSE consecutive_failures + 1)]_vars

C33_Witness ==
    /\ pc = "loop"
    /\ Len(history) = 4
    /\ ~history[1].success /\ history[2].success
    /\ ~history[3].success /\ ~history[4].success
    /\ consecutive_failures = 2

\* the failed dispatches of one step among the first k dispatches
FailedUpTo(id, k) ==
    Cardinality({j \in 1..k : history[j].id = id /\ ~history[j].success})

\* C34: after a dispatch that failed below the step's budget, the next
\* dispatch is of the same step: a step that reflect has put back to pending
\* is the one the loop head picks.
C34_RetryBackToBack ==
    /\ [](\A k \in 1..(Len(history) - 1) :
            (/\ ~history[k].success
             /\ FailedUpTo(history[k].id, k) < steps[history[k].id].max_attempts)
            => history[k + 1].id = history[k].id)
    /\ [][(pc = "loop" /\ pc' = "execute" /\ cur # 0 /\ steps[cur].status = "pending")
            => cur' = cur]_vars

C34_Witness ==
    /\ pc = "loop"
    /\ Len(steps) = 2
    /\ steps[2].dependencies = <<>>
    /\ steps[2].status = "pending"
    /\ steps[1].status = "completed"
    /\ Len(history) = 3
    /\ \A k \in 1..3 : history[k].id = 1
    /\ ~history[1].success /\ ~history[2].success

\* C35: when the loop is left, every step of a non-empty plan is completed
\* or failed, and the iteration budget is not used up.
C35_LoopLeftWithEveryStepSettled ==
    (pc = "done" /\ Len(steps) > 0) =>
        /\ \A i \in 1..Len(steps) : steps[i].status \in {"completed", "failed"}
        /\ iteration < max_iterations

C35_Witness ==
    /\ pc = "done"
    /\ Len(steps) = 2
    /\ iteration = 6
    /\ \A i \in 1..2 : steps[i].status = "failed" /\ steps[i].attempts = 3

\* C36: a step that is completed or failed keeps its status, result, error
\* and attempt counter, and the step the loop head dispatches is pending.
C36_SettledStepsAbsorbing ==
    [][/\ Len(steps') >= Len(steps)
       /\ \A i \in 1..Len(steps) :
             steps[i].status \in {"completed", "failed"} => steps'[i] = steps[i]
       /\ (pc = "loop" /\ pc' = "execute") =>
             steps[cur'].status \notin {"completed", "failed"}]_vars

C36_Witness ==
    /\ pc = "done"
    /\ Len(steps) = 2
    /\ steps[1].status = "failed"
    /\ steps[1].attempts = 3
    /\ steps[2].status = "completed"
    /\ steps[2].attempts = 1
    /\ Len(history) = 5
    /\ \A k \in 1..3 : history[k].id = 1
    /\ history[4].id = 2 /\ history[5].id = 2

\* C37: a step is dispatched at most max_attempts times, and a completed
\* step was dispatched attempts + 1 times.
C37_DispatchesWithinBudget ==
    \A i \in 1..Len(steps) :
        /\ Len(DispatchesOf(steps[i].id)) <= steps[i].max_attempts
        /\ steps[i].status = "completed" =>
              Len(DispatchesOf(steps[i].id)) = steps[i].attempts + 1

C37_Witness ==
    \E i \in 1..Len(steps) :
        /\ steps[i].status = "completed"
        /\ steps[i].attempts = 2
        /\ DispatchesOf(steps[i].id) = <<FALSE, FALSE, TRUE>>

(***************************************************************************)
(* revise_plan on its own (specification SpecRevise): a plan in which one  *)
(* step has exhausted its budget with some error text, revised repeatedly. *)
(***************************************************************************)
ErrPermission == "PermissionError: [Errno 13] denied"

ErrorTexts ==
    {ErrNoModule, ErrPermission,
     "ImportError: cannot import name x",
     "Access denied while importing",
     "SyntaxError: invalid syntax",
     "Connection timeout",
     "Permission denied: syntax check timeout",
     "SyntaxError after connection reset",
     "failed", ""}

\* the task lists of the plans that are revised: a failed step without
\* dependencies, with a dependency on a step before it (str or int), and
\* with a dependency that names no step
ReviseTaskLists ==
    {<<Task("write a.py", "coder", NeedAbsent)>>,
     <<Task("write a.py", "coder", NeedAbsent),
       Task("write b.py", "coder", NeedList(<<PyStr("1")>>))>>,
     <<Task("search docs", "web", NeedList(<<PyStr("99")>>)),
       Task("write a.py", "coder", NeedAbsent)>>,
     <<Task("write a.py", "coder", NeedAbsent),
       Task("port it", "Coding", NeedList(<<PyInt(1)>>))>>}

\* the capability tags of the step that failed
ReviseTags == {"coder", "file", "web", "casual", "Coding"}

MarkFailed(plan, f, error) ==
    [plan EXCEPT ![f].status = "failed", ![f].attempts = plan[f].max_attempts,
                 ![f].error = error]

InitRevise ==
    /\ agents = <<"coder", "web", "file", "casual">>
    /\ stop = FALSE
    /\ proc = NoProc
    /\ required_infos = <<>>
    /\ ws_manager = "absent"
    /\ sb = NoSB
    /\ \E agent_tasks \in ReviseTaskLists : \E f \in 1..Len(agent_tasks) :
       \E e \in ErrorTexts : \E tag \in ReviseTags :
          /\ steps = MarkFailed([create_plan_from_tasks(agent_tasks)
                                    EXCEPT ![f].agent_type = tag], f, e)
          /\ cur = f
    /\ reflection_log = <<>>
    /\ execution_memory = <<>>
    /\ iteration = 0
    /\ max_iterations = Len(steps) * 4
    /\ consecutive_failures = 0
    /\ pc = "revise"
    /\ result = steps[cur].error
    /\ success = FALSE
    /\ history = <<>>
    /\ last = NoDispatch
    /\ revise_log = <<>>
    /\ sc = NoSC

\* one call revise_plan(failed_step)
ApplyRevise ==
    /\ pc = "revise"
    /\ Len(revise_log) < MaxRevisions
    /\ steps' = revise_plan(steps, cur)
    /\ revise_log' = Append(revise_log,
                            [id |-> steps[cur].id, status |-> steps[cur].status,
                             attempts |-> steps[cur].attempts,
                             cf |-> consecutive_failures, before |-> Len(steps)])
    /\ UNCHANGED <<sb, ws_manager, required_infos, proc, stop, agents, reflection_log, execution_memory, iteration, max_iterations,
                   consecutive_failures, pc, cur, result, success, history, last, sc>>

NextRevise == ApplyRevise

SpecRevise == InitRevise /\ [][NextRevise]_vars

PermissionSignature(error) ==
    Contains(lower(error), "permission") \/ Contains(lower(error), "access denied")

MissingDependencySignature(error) ==
    Contains(lower(error), "no module named") \/ Contains(lower(error), "import")

\* C8: revise_plan on a failed step whose error carries a permission/access
\* signature and no missing-dependency signature appends exactly one step,
\* for the file worker, with the failed step's dependencies.
C8_PermissionRevision ==
    [][(/\ revise_log' # revise_log
        /\ PermissionSignature(steps[cur].error)
        /\ ~MissingDependencySignature(steps[cur].error))
       => /\ Len(steps') = Len(steps) + 1
          /\ SubSeq(steps', 1, Len(steps)) = steps
          /\ steps'[Len(steps')].agent_type = "file"
          /\ steps'[Len(steps')].dependencies = steps[cur].dependencies
          /\ steps'[Len(steps')].status = "pending"]_vars

C8_Witness ==
    /\ pc = "revise"
    /\ revise_log # <<>>
    /\ steps[cur].error = ErrPermission
    /\ steps[cur].agent_type # "file"
    /\ steps[cur].dependencies # <<>>
    /\ Len(steps) = revise_log[1].before + Len(revise_log)
    /\ steps[Len(steps)].agent_type = "file"

\* C21: revise_plan on a step whose error carries a missing-dependency
\* signature appends exactly two steps: a web step with budget 2 and the
\* failed step's dependencies, then a coder step with budget 2 whose only
\* dependency is the web step's identifier; get_next_step does not return
\* the coder step unless the web step is completed.
C21_MissingDependencyRevision ==
    [][(revise_log' # revise_log /\ MissingDependencySignature(steps[cur].error)) =>
         LET n == Len(steps)
         IN /\ Len(steps') = n + 2
            /\ SubSeq(steps', 1, n) = steps
            /\ steps'[n + 1].agent_type = "web"
            /\ steps'[n + 1].max_attempts = 2
            /\ steps'[n + 1].dependencies = steps[cur].dependencies
            /\ steps'[n + 1].status = "pending"
            /\ steps'[n + 2].agent_type = "coder"
            /\ steps'[n + 2].max_attempts = 2
            /\ steps'[n + 2].dependencies = <<PyStr(IntToStr(steps'[n + 1].id))>>
            /\ steps'[n + 2].status = "pending"
            /\ DepStep(steps', steps'[n + 2].dependencies[1]) = n + 1
            /\ \A st \in {"pending", "running", "failed", "completed"} :
                  LET plan == [steps' EXCEPT ![n + 1].status = st]
                  IN DepsMet(plan, n + 2) <=> st = "completed"
            /\ get_next_step(steps') # n + 2]_vars

C21_Witness ==
    /\ pc = "revise"
    /\ Len(revise_log) = 1
    /\ steps[cur].error = ErrNoModule
    /\ steps[cur].dependencies # <<>>
    /\ Len(steps) = revise_log[1].before + 2
    /\ steps[Len(steps) - 1].agent_type = "web"
    /\ steps[Len(steps)].agent_type = "coder"
    /\ Contains(steps[Len(steps) - 1].description, "'foo'")

SyntaxSignature(error) ==
    Contains(lower(error), "syntax") \/ Contains(lower(error), "syntaxerror")

TimeoutSignature(error) ==
    Contains(lower(error), "timeout") \/ Contains(lower(error), "connection")

\* the first category, in the order of the claim, whose signature the text carries
FirstCategory(error) ==
    IF MissingDependencySignature(error) THEN "missing_dependency"
    ELSE IF PermissionSignature(error) THEN "permission"
    ELSE IF SyntaxSignature(error) THEN "syntax"
    ELSE IF TimeoutSignature(error) THEN "timeout"
    ELSE "generic"

\* the category a recovery step was synthesized for, read off its description
HandledAs(step) ==
    IF StartsWith(step.description, "[MULTI-TOOL BROWSE]") THEN "missing_dependency"
    ELSE IF StartsWith(step.description, "[RECOVERY - INSTALL DEPENDENCY") THEN "missing_dependency"
    ELSE IF StartsWith(step.description, "[RECOVERY - FIX PERMISSIONS]") THEN "permission"
    ELSE IF StartsWith(step.description, "[RECOVERY - FIX SYNTAX]") THEN "syntax"
    ELSE IF StartsWith(step.description, "[RECOVERY - RETRY CONNECTION]") THEN "timeout"
    ELSE IF StartsWith(step.description, "[RECOVERY] ") THEN "generic"
    ELSE "none"

\* C22: the steps one revision appends are those of exactly one category,
\* the first in the order missing dependency, permission, syntax, timeout,
\* generic whose signature the error text carries.
C22_CategoryPriority ==
    [][revise_log' # revise_log =>
         /\ Len(steps') > Len(steps)
         /\ \A i \in (Len(steps) + 1)..Len(steps') :
               HandledAs(steps'[i]) = FirstCategory(steps[cur].error)
         /\ Len(steps') - Len(steps) =
               (IF FirstCategory(steps[cur].error) = "missing_dependency" THEN 2 ELSE 1)]_vars

C22_Witness ==
    /\ pc = "revise"
    /\ Len(revise_log) = 1
    /\ steps[cur].error = "Permission denied: syntax check timeout"
    /\ Len(steps) = revise_log[1].before + 1
    /\ HandledAs(steps[Len(steps)]) = "permission"

\* the tags the claim pairs a tag with
MappingPartners(tag) ==
    IF tag = "coder" THEN {"file", "casual"}
    ELSE IF tag = "file" THEN {"coder"}
    ELSE IF tag = "web" THEN {"casual"}
    ELSE IF tag = "casual" THEN {"web", "coder"}
    ELSE {}

\* C23 as stated: for an error text of no specific category the one step
\* appended has the failed step's dependencies and a tag that the mapping
\* code<->file, web<->casual, casual<->code pairs with the failed step's tag.
C23_GenericSwapsCapability ==
    [][(revise_log' # revise_log /\ FirstCategory(steps[cur].error) = "generic") =>
         /\ Len(steps') = Len(steps) + 1
         /\ steps'[Len(steps')].dependencies = steps[cur].dependencies
         /\ steps'[Len(steps')].agent_type \in MappingPartners(lower(steps[cur].agent_type))]_vars

\* C23 amended: the one step appended has the failed step's dependencies,
\* budget 2, and the tag file for coder, coder for file, casual for web,
\* coder for casual (the failed step's tag compared in lower case); a tag
\* outside these four is kept as it is.
C23_GenericAlternateOrSame ==
    [][(revise_log' # revise_log /\ FirstCategory(steps[cur].error) = "generic") =>
         LET tag == lower(steps[cur].agent_type)
             new == steps'[Len(steps')]
         IN /\ Len(steps') = Len(steps) + 1
            /\ SubSeq(steps', 1, Len(steps)) = steps
            /\ new.dependencies = steps[cur].dependencies
            /\ new.max_attempts = 2
            /\ new.status = "pending"
            /\ new.agent_type =
                  (IF tag = "coder" THEN "file"
                   ELSE IF tag = "file" THEN "coder"
                   ELSE IF tag = "web" THEN "casual"
                   ELSE IF tag = "casual" THEN "coder"
                   ELSE steps[cur].agent_type)]_vars

C23_Witness ==
    /\ pc = "revise"
    /\ Len(revise_log) = 1
    /\ steps[cur].error = "failed"
    /\ steps[cur].agent_type = "Coding"
    /\ Len(steps) = revise_log[1].before + 1
    /\ steps[Len(steps)].agent_type = "Coding"
    /\ HandledAs(steps[Len(steps)]) = "generic"

\* C26: the identifiers of the steps of a plan are pairwise distinct, and a
\* revision leaves every step it found, the failed one included, at its
\* position with all its fields: it only appends.
C26_UniqueIdsAppendOnly ==
    /\ [](\A i, j \in 1..Len(steps) : steps[i].id = steps[j].id => i = j)
    /\ [][/\ Len(steps') >= Len(steps)
          /\ SubSeq(steps', 1, Len(steps)) = steps]_vars

C26_Witness ==
    /\ pc = "revise"
    /\ Len(revise_log) = 2
    /\ steps[cur].error = ErrNoModule
    /\ Len(steps) = revise_log[1].before + 4
    /\ steps[Len(steps)].id = Len(steps)
    /\ steps[cur].status = "failed"

(***************************************************************************)
(* Worker resolution on its own (specification SpecResolve): lines 259-269 *)
(* of execute_step for one step and one registry.                          *)
(***************************************************************************)
RegistryKeys == {"coder", "web", "webby", "file", "casual", "code"}

\* the registries: the keys of a dict, distinct, in insertion order
RegistryContents ==
    UNION {{r \in [1..n -> RegistryKeys] : \A i, j \in 1..n : r[i] = r[j] => i = j}
           : n \in 0..MaxRegistry}

\* the capability tags of the step
StepTags == {"coder", "web", "Coding", "WEB", "cas", "planner", "w", ""}

InitResolve ==
    /\ agents \in RegistryContents
    /\ stop = FALSE
    /\ proc = NoProc
    /\ required_infos = <<>>
    /\ ws_manager = "absent"
    /\ sb = NoSB
    /\ \E tag \in StepTags : steps = <<TaskStep(1, "task", tag, DefaultMaxAttempts, <<>>)>>
    /\ reflection_log = <<>>
    /\ execution_memory = <<>>
    /\ iteration = 1
    /\ max_iterations = IterationBudget(steps)
    /\ consecutive_failures = 0
    /\ pc = "resolve"
    /\ cur = 1
    /\ result = ""
    /\ success = FALSE
    /\ history = <<>>
    /\ last = NoDispatch
    /\ revise_log = <<>>
    /\ sc = NoSC

\* lines 259-269: the step is marked running, the key is resolved, the
\* registry is indexed with it; `result` holds the key
ResolveWorker ==
    /\ pc = "resolve"
    /\ steps' = [steps EXCEPT ![cur].status = "running"]
    /\ result' = ResolveAgentKey(agents, steps[cur].agent_type)
    /\ pc' = IF InRegistry(agents, ResolveAgentKey(agents, steps[cur].agent_type))
             THEN "prompt" ELSE "fault"
    /\ UNCHANGED <<sb, ws_manager, required_infos, proc, stop, agents, reflection_log, execution_memory, iteration, max_iterations,
                   consecutive_failures, cur, success, history, last, revise_log, sc>>

NextResolve == ResolveWorker

SpecResolve == InitResolve /\ [][NextResolve]_vars

\* the keys of the registry that start with the first three characters of the tag
PrefixMatches(tag) ==
    {k \in 1..Len(agents) : StartsWith(agents[k], Trunc(lower(tag), 3))}

\* C17: whatever the step's tag and the registry, the resolved key is a key
\* of the registry and execute_step goes on to invoke that worker.
C17_ResolutionProducesWorker ==
    pc # "resolve" => (InRegistry(agents, result) /\ pc = "prompt")

\* C18: the resolved key is the lower-cased tag when the registry has it;
\* otherwise the first key that starts with the first three characters of
\* the lower-cased tag when there is one; otherwise the fallback key "coder".
C18_ResolutionOrder ==
    pc # "resolve" =>
        LET tag == lower(steps[1].agent_type)
            pm == PrefixMatches(steps[1].agent_type)
        IN /\ InRegistry(agents, tag) => result = tag
           /\ (~InRegistry(agents, tag) /\ pm # {}) =>
                 \E k \in pm : result = agents[k] /\ \A j \in pm : k <= j
           /\ (~InRegistry(agents, tag) /\ pm = {}) => result = "coder"

C18_Witness ==
    /\ pc = "prompt"
    /\ agents = <<"webby", "web">>
    /\ steps[1].agent_type = "WEB"
    /\ result = "web"

(***************************************************************************)
(* CoderAgent._self_correct_execution (specification SpecSC).              *)
(***************************************************************************)
self_correction_max == 3

error_indicators ==
    {"Error", "Exception", "Traceback", "SyntaxError", "NameError", "TypeError",
     "ValueError", "ImportError", "ModuleNotFoundError", "AttributeError", "KeyError",
     "IndexError", "FileNotFoundError", "PermissionError", "RuntimeError", "OSError",
     "IOError", "ZeroDivisionError", "IndentationError", "UnboundLocalError"}

\* _has_error_in_output
has_error_in_output(feedback) ==
    feedback # "" /\ \E ind \in error_indicators : Contains(feedback, ind)

IsQuote(c) == c \in {"'", "\""}

RECURSIVE NonQuoteRun(_, _)
\* the maximal run of [^'"] characters of t from position j
NonQuoteRun(t, j) ==
    IF j <= Len(t) /\ ~IsQuote(CharAt(t, j))
    THEN CharAt(t, j) \o NonQuoteRun(t, j + 1)
    ELSE ""

\* does r"No module named ['\"]([^'\"]+)['\"]" match at position i of t
QuotedModuleAt(t, i) ==
    /\ SubSeq(t, i, i + 15) = "No module named "
    /\ IsQuote(CharAt(t, i + 16))
    /\ NonQuoteRun(t, i + 17) # ""
    /\ IsQuote(CharAt(t, i + 17 + Len(NonQuoteRun(t, i + 17))))

HasQuotedModule(t) == \E i \in 1..(Len(t) - 15) : QuotedModuleAt(t, i)

\* x.split('.')[0]
BeforeDot(x) ==
    LET k == IndexOf(".", x) IN IF k = 0 THEN x ELSE SubSeq(x, 1, k - 1)

\* module_match.group(1).split('.')[0] of the leftmost match
QuotedModuleName(t) ==
    LET m == {i \in 1..(Len(t) - 15) : QuotedModuleAt(t, i)}
        i0 == CHOOSE i \in m : \A j \in m : i <= j
    IN BeforeDot(NonQuoteRun(t, i0 + 17))

\* lines 131-133 alone, without the test of installed_packages of lines 135-136
InstallAttemptedAgain(error_text, installed) == HasQuotedModule(error_text)

\* _auto_install_from_error up to the call of install_package: is an install attempted
InstallAttempted(error_text, installed) ==
    HasQuotedModule(error_text) /\ QuotedModuleName(error_text) \notin installed

\* lines 392-396: the feedback sends the attempt into the remediation branch
MissingModuleFeedback(feedback) ==
    /\ \/ Contains(lower(feedback), "no module named")
       \/ Contains(lower(feedback), "modulenotfounderror")
    /\ HasQuotedModule(feedback)

\* line 399 without the test of install_ok: the browse collaborator is always asked
BrowseQueriedAlways(install_ok, browser_agent) == browser_agent

\* line 399: is _browse_for_install_help called
BrowseQueried(install_ok, browser_agent) == ~install_ok /\ browser_agent

\* the loop test of line 379 with `<=`
SCLoopContinuesOffByOne(attempt) == attempt <= self_correction_max

\* line 379
SCLoopContinues(attempt) == attempt < self_correction_max

\* lines 447-448 without the update of last_answer
SCRecordFailureKeepAnswer(s, answer, feedback) ==
    [s EXCEPT !.current_feedback = feedback]

\* lines 447-448
SCRecordFailure(s, answer, feedback) ==
    [s EXCEPT !.current_feedback = feedback, !.last_answer = answer]

\* the inputs and collaborator outcomes of one call
\* the code-fence marker of three backquotes, written ~~~: a TLA+ string cannot hold a backquote
Fence == "~~~"
OriginalAnswer == Fence \o "python:a.py v0" \o Fence
FbValueError == "ValueError: bad input"
FbExit == "exit code 1"
FbOk == "ok"

\* a missing-module text that the pattern of lines 131 and 395 does not match
ErrNoModuleBare == "ModuleNotFoundError: no module named foo"

SCFeedbacks == {ErrNoModule, ErrNoModuleBare, FbValueError, FbExit}

\* the text the generative collaborator returns at request k: with or without a code block
LLMAnswers(k) ==
    {Fence \o "python:a.py v" \o IntToStr(k) \o Fence, "no code " \o IntToStr(k)}

\* (exec_success, feedback) of executing the artifact of attempt k
ExecResults(k) ==
    {<<TRUE, FbOk \o " #" \o IntToStr(k)>>,
     <<TRUE, FbValueError \o " #" \o IntToStr(k)>>,
     <<FALSE, ErrNoModule \o " #" \o IntToStr(k)>>,
     <<FALSE, FbExit \o " #" \o IntToStr(k)>>}

NoReturn == [returned |-> FALSE, success |-> FALSE, answer |-> "", feedback |-> ""]
Return(ok, answer, feedback) ==
    [returned |-> TRUE, success |-> ok, answer |-> answer, feedback |-> feedback]

InitSC ==
    /\ agents = <<"coder", "web", "file", "casual">>
    /\ stop = FALSE
    /\ proc = NoProc
    /\ required_infos = <<>>
    /\ ws_manager = "absent"
    /\ sb = NoSB
    /\ steps = <<>>
    /\ reflection_log = <<>>
    /\ execution_memory = <<>>
    /\ iteration = 0
    /\ max_iterations = 0
    /\ consecutive_failures = 0
    /\ pc = "self_correct"
    /\ cur = 0
    /\ result = ""
    /\ success = FALSE
    /\ history = <<>>
    /\ last = NoDispatch
    /\ revise_log = <<>>
    /\ \E fb \in SCFeedbacks : \E browser \in BOOLEAN : \E inst \in {{}, {"foo"}} :
          sc = [pc |-> "loop",
                correction_attempt |-> 0,
                original_answer |-> OriginalAnswer,
                error_feedback |-> fb,
                current_feedback |-> fb,
                last_answer |-> OriginalAnswer,
                answer |-> "",
                browser_info |-> "",
                browser_agent |-> browser,
                installed_packages |-> inst,
                ret |-> NoReturn,
                \* ghosts
                llm_requests |-> 0,
                installs |-> <<>>,     \* modules install_package succeeded for, in order
                events |-> <<>>,       \* install / browse calls of the attempt in flight
                log |-> <<>>]          \* one record per regeneration: answer, executed, exec_success, feedback

SCUnchanged ==
    UNCHANGED <<sb, ws_manager, required_infos, proc, stop, agents, steps, reflection_log, execution_memory, iteration,
                max_iterations, consecutive_failures, pc, cur, result, success,
                history, last, revise_log>>

\* lines 379-400: the loop test, the attempt counter, direct installation, browsing
SCRemediate ==
    /\ sc.pc = "loop"
    /\ SCLoopContinues(sc.correction_attempt)
    /\ LET s1 == [sc EXCEPT !.correction_attempt = @ + 1, !.pc = "generate",
                            !.browser_info = "", !.events = <<>>]
       IN IF ~MissingModuleFeedback(sc.current_feedback)
          THEN sc' = s1
          ELSE \E install_success \in BOOLEAN :
               LET tried == InstallAttempted(sc.current_feedback, sc.installed_packages)
                   install_ok == tried /\ install_success
                   s2 == [s1 EXCEPT
                            !.installed_packages =
                                IF install_ok
                                THEN @ \cup {QuotedModuleName(sc.current_feedback)}
                                ELSE @,
                            !.installs =
                                IF install_ok
                                THEN Append(@, QuotedModuleName(sc.current_feedback))
                                ELSE @,
                            !.events = IF ~tried THEN <<>>
                                       ELSE IF install_ok THEN <<"install_ok">>
                                       ELSE <<"install_failed">>]
               IN IF BrowseQueried(install_ok, sc.browser_agent)
                  THEN \E b \in BrowseOutcomes :
                       sc' = [s2 EXCEPT
                                !.browser_info =
                                    IF b.kind = "raise" THEN "" ELSE Trunc(b.answer, 1000),
                                !.events = Append(@, "browse")]
                  ELSE sc' = s2
    /\ SCUnchanged

\* lines 402-424: the regeneration request; an answer without a code block ends the attempt
SCGenerate ==
    /\ sc.pc = "generate"
    /\ \/ \E a \in LLMAnswers(sc.llm_requests + 1) :
            sc' = [sc EXCEPT
                     !.llm_requests = @ + 1,
                     !.answer = a,
                     !.pc = IF Contains(a, Fence) THEN "execute" ELSE "loop",
                     !.log = Append(@, [answer |-> a, executed |-> FALSE,
                                         exec_success |-> FALSE, feedback |-> ""])]
       \/ sc' = [sc EXCEPT !.llm_requests = @ + 1, !.pc = "fault"]
    /\ SCUnchanged

\* execute_modules_with_sandbox, lines 269-273: a block that fails on a missing
\* module is run again after a successful installation of that module
SandboxReinstalls(r1, installed, install_success) ==
    /\ ~r1[1]
    /\ Contains(r1[2], "No module named")
    /\ InstallAttempted(r1[2], installed)
    /\ install_success

\* the test of line 437 without the scan for error indicators
SCVerdictExecOnly(exec_success, feedback) == exec_success

\* line 437: the attempt is a success
SCVerdict(exec_success, feedback) == exec_success /\ ~has_error_in_output(feedback)

\* lines 434-456: the execution of the regenerated artifact and its verdict
SCExecute ==
    /\ sc.pc = "execute"
    /\ \E r1 \in ExecResults(sc.correction_attempt) :
       \E r2 \in ExecResults(sc.correction_attempt) :
       \E install_success \in BOOLEAN :
          LET again == SandboxReinstalls(r1, sc.installed_packages, install_success)
              r == IF again THEN r2 ELSE r1
              s1 == [sc EXCEPT !.log[Len(sc.log)] =
                                  [answer |-> sc.answer, executed |-> TRUE,
                                   exec_success |-> r[1], feedback |-> r[2]],
                               !.installed_packages =
                                  IF again THEN @ \cup {QuotedModuleName(r1[2])} ELSE @,
                               !.installs =
                                  IF again THEN Append(@, QuotedModuleName(r1[2])) ELSE @]
          IN IF SCVerdict(r[1], r[2])
             THEN sc' = [s1 EXCEPT !.pc = "done", !.ret = Return(TRUE, sc.answer, r[2])]
             ELSE sc' = [SCRecordFailure(s1, sc.answer, r[2]) EXCEPT !.pc = "loop"]
    /\ SCUnchanged

\* lines 458-467: the budget is exhausted
SCExhausted ==
    /\ sc.pc = "loop"
    /\ ~SCLoopContinues(sc.correction_attempt)
    /\ sc' = [sc EXCEPT !.pc = "done",
                        !.ret = Return(FALSE, sc.last_answer, sc.current_feedback)]
    /\ SCUnchanged

NextSC == SCRemediate \/ SCGenerate \/ SCExecute \/ SCExhausted

SpecSC == InitSC /\ [][NextSC]_vars

\* the regenerations that were executed, in order
ExecutedAttempts == SelectSeq(sc.log, LAMBDA a : a.executed)

NoCodeAttempts == SelectSeq(sc.log, LAMBDA a : ~a.executed)

\* C9: never more than 3 regeneration requests; a call that returns failure
\* has made exactly 3, and each request is one attempt of the budget whether
\* or not its answer carried a code block (only those with one are executed).
C9_ExactlyThreeRegenerations ==
    /\ sc.llm_requests <= 3
    /\ sc.correction_attempt <= 3
    /\ sc.pc \in {"loop", "done"} =>
          /\ sc.llm_requests = sc.correction_attempt
          /\ Len(sc.log) = sc.llm_requests
          /\ \A k \in 1..Len(sc.log) :
                sc.log[k].executed <=> Contains(sc.log[k].answer, Fence)
    /\ (sc.ret.returned /\ ~sc.ret.success) =>
          sc.llm_requests = 3 /\ sc.pc = "done"

C9_Witness ==
    /\ sc.ret.returned /\ ~sc.ret.success
    /\ sc.llm_requests = 3
    /\ Len(NoCodeAttempts) = 1
    /\ Len(ExecutedAttempts) = 2

\* C10 as stated: on exhaustion the returned output and feedback are those
\* of the 3rd attempt.
C10_ReturnsThirdAttempt ==
    (sc.ret.returned /\ ~sc.ret.success) =>
        /\ Len(sc.log) = 3
        /\ sc.ret.answer = sc.log[3].answer
        /\ sc.ret.feedback = sc.log[3].feedback

\* C10 amended: on exhaustion the returned output and feedback are those of
\* the last attempt whose regeneration was executed, and the original output
\* and feedback passed to the call when no regeneration was executed.
C10_ReturnsLastExecutedAttempt ==
    (sc.ret.returned /\ ~sc.ret.success) =>
        IF ExecutedAttempts = <<>>
        THEN /\ sc.ret.answer = sc.original_answer
             /\ sc.ret.feedback = sc.error_feedback
        ELSE /\ sc.ret.answer = ExecutedAttempts[Len(ExecutedAttempts)].answer
             /\ sc.ret.feedback = ExecutedAttempts[Len(ExecutedAttempts)].feedback

C10_Witness ==
    /\ sc.ret.returned /\ ~sc.ret.success
    /\ Len(sc.log) = 3
    /\ ~sc.log[3].executed
    /\ sc.log[2].executed
    /\ sc.ret.answer = sc.log[2].answer
    /\ sc.ret.feedback = sc.log[2].feedback

\* C11 as stated: in an attempt whose feedback carries a missing-module
\* signature, an installation of the named package is attempted first, and the
\* browse collaborator is asked only after an installation that did not succeed.
C11_InstallAttemptedBeforeBrowse ==
    (sc.pc = "generate" /\ MissingModuleFeedback(sc.current_feedback)) =>
        /\ sc.events # <<>>
        /\ sc.events[1] \in {"install_ok", "install_failed"}
        /\ (\E k \in 1..Len(sc.events) : sc.events[k] = "browse") =>
               sc.events = <<"install_failed", "browse">>

\* C11 amended: the browse collaborator is never asked before the direct
\* remediation and never after an installation that succeeded.  An attempt
\* whose feedback the pattern No module named '<name>' matches installs the
\* named package unless it is already recorded as installed, and then asks
\* the browse collaborator exactly when no installation succeeded and a
\* browse collaborator exists; any other attempt installs and asks nothing.
C11_RemediationBeforeBrowse ==
    sc.pc = "generate" =>
        IF ~MissingModuleFeedback(sc.current_feedback)
        THEN sc.events = <<>>
        ELSE LET name == QuotedModuleName(sc.current_feedback)
                 asked == IF sc.browser_agent THEN <<"browse">> ELSE <<>>
             IN \/ sc.events = <<"install_ok">> /\ name \in sc.installed_packages
                \/ sc.events = <<"install_failed">> \o asked
                      /\ name \notin sc.installed_packages
                \/ sc.events = asked /\ name \in sc.installed_packages

C11_Witness ==
    /\ sc.pc = "generate"
    /\ sc.correction_attempt = 2
    /\ MissingModuleFeedback(sc.current_feedback)
    /\ sc.events = <<"install_failed", "browse">>
    /\ sc.browser_info # ""

\* C38: direct remediation installs a module at most once per code worker:
\* installed_packages only grows, a module enters it only by an installation
\* that succeeded and that was made while the module was not in it, and an
\* attempt whose missing-module feedback names a module already in it
\* installs nothing and goes on to the browse collaborator.
C38_InstallsAtMostOnce ==
    [][/\ sc.installed_packages \subseteq sc'.installed_packages
       /\ \/ /\ sc'.installs = sc.installs
             /\ sc'.installed_packages = sc.installed_packages
          \/ \E name \in sc'.installed_packages \ sc.installed_packages :
                /\ sc'.installs = Append(sc.installs, name)
                /\ sc'.installed_packages = sc.installed_packages \cup {name}
       /\ (/\ sc.pc = "loop" /\ sc'.pc = "generate"
           /\ MissingModuleFeedback(sc.current_feedback)
           /\ QuotedModuleName(sc.current_feedback) \in sc.installed_packages)
          => /\ sc'.installs = sc.installs
             /\ sc'.events = IF sc.browser_agent THEN <<"browse">> ELSE <<>>]_vars

\* a module installed by one attempt is named again by the feedback of the
\* next, and that attempt asks the browse collaborator without installing
C38_Witness ==
    /\ sc.pc = "generate"
    /\ sc.correction_attempt >= 2
    /\ sc.installs = <<"foo">>
    /\ MissingModuleFeedback(sc.current_feedback)
    /\ QuotedModuleName(sc.current_feedback) = "foo"
    /\ sc.events = <<"browse">>

\* an attempt whose artifact was executed, executed successfully and left no
\* error indicator in its feedback
CleanAttempt(a) == a.executed /\ a.exec_success /\ ~has_error_in_output(a.feedback)

\* C30: _self_correct_execution returns success exactly when an attempt was
\* clean; the clean attempt is the last one made (no regeneration request
\* follows it, none before it was clean) and the call returns its answer and
\* its feedback.
C30_SuccessAtFirstCleanAttempt ==
    /\ \A k \in 1..Len(sc.log) :
          CleanAttempt(sc.log[k]) =>
             /\ k = Len(sc.log)
             /\ sc.llm_requests = k
             /\ sc.pc = "done"
             /\ sc.ret = Return(TRUE, sc.log[k].answer, sc.log[k].feedback)
    /\ (sc.ret.returned /\ sc.ret.success) =>
          /\ sc.log # <<>>
          /\ CleanAttempt(sc.log[Len(sc.log)])

C30_Witness ==
    /\ sc.ret.returned /\ sc.ret.success
    /\ Len(sc.log) = 3
    /\ ~sc.log[1].executed
    /\ sc.log[2].executed /\ sc.log[2].exec_success
    /\ has_error_in_output(sc.log[2].feedback)
    /\ sc.ret.feedback = FbOk \o " #3"

(***************************************************************************)
(* CoderAgent.process (specification SpecProcess): the attempt loop of     *)
(* lines 479-560 and the return of lines 561-565, with the sandbox.        *)
(***************************************************************************)
\* line 472
process_max_attempts == 7

\* the loop test of line 479 with `<=`
ProcessLoopContinuesOffByOne(attempt, stopped) ==
    attempt <= process_max_attempts /\ ~stopped

\* line 479
ProcessLoopContinues(attempt, stopped) ==
    attempt < process_max_attempts /\ ~stopped

\* what one call of _self_correct_execution(answer, feedback) leaves behind:
\* its verdict, the feedback it returns, the worker's success flag as the
\* last execute_modules_with_sandbox call set it, and the feedback of the
\* last artifact executed
SCSummary(ok, feedback, flag, ran_feedback) ==
    [ok |-> ok, feedback |-> feedback, success |-> flag, ran_feedback |-> ran_feedback]

RECURSIVE SCSummaries(_, _, _, _)
\* attempts k..self_correction_max of the loop of lines 379-456
SCSummaries(k, current_feedback, flag, ran_feedback) ==
    IF k > self_correction_max
    THEN {SCSummary(FALSE, current_feedback, flag, ran_feedback)}
    ELSE SCSummaries(k + 1, current_feedback, flag, ran_feedback)
         \cup UNION {IF SCVerdict(r[1], r[2])
                     THEN {SCSummary(TRUE, r[2], TRUE, r[2])}
                     ELSE SCSummaries(k + 1, r[2], r[1], r[2])
                     : r \in ExecResults(k)}

\* lines 519-530 and 532-543: self-correction is entered on this verdict, and
\* its outcome replaces exec_success and feedback
SelfCorrected(enter, v) ==
    IF ~enter
    THEN {v}
    ELSE {[exec_success |-> o.ok, feedback |-> o.feedback,
           success |-> o.success, ran_feedback |-> o.ran_feedback,
           sc_starts |-> v.sc_starts + 1]
          : o \in SCSummaries(1, v.feedback, v.success, v.ran_feedback)}

\* lines 516-543: the execution of the artifact of an attempt and the two
\* self-correction tests that follow it, one after the other
AttemptVerdicts(k) ==
    UNION {UNION {SelfCorrected(~v1.exec_success /\ ~has_error_in_output(v1.feedback), v1)
                  : v1 \in SelfCorrected(r[1] /\ has_error_in_output(r[2]),
                                         [exec_success |-> r[1], feedback |-> r[2],
                                          success |-> r[1], ran_feedback |-> r[2],
                                          sc_starts |-> 0])}
           : r \in ExecResults(k)}

\* the worker's success flag is whatever an earlier call left in it
InitProcess ==
    /\ agents = <<"coder", "web", "file", "casual">>
    /\ stop \in BOOLEAN
    /\ steps = <<>>
    /\ reflection_log = <<>>
    /\ execution_memory = <<>>
    /\ iteration = 0
    /\ max_iterations = 0
    /\ consecutive_failures = 0
    /\ pc = "process"
    /\ cur = 0
    /\ result = ""
    /\ success = FALSE
    /\ history = <<>>
    /\ last = NoDispatch
    /\ revise_log = <<>>
    /\ sc = NoSC
    /\ required_infos = <<>>
    /\ ws_manager = "absent"
    /\ sb = NoSB
    /\ \E keyword \in BOOLEAN : \E flag \in BOOLEAN :
          proc = [pc |-> "loop",
                  attempt |-> 0,
                  no_code_retries |-> 0,
                  keyword |-> keyword,       \* the prompt holds one of the words of lines 490-497
                  success |-> flag,          \* self.success
                  exec_success |-> FALSE,
                  executed |-> FALSE,        \* ghost: an artifact was executed by this call
                  ran_feedback |-> "",       \* ghost: the feedback of the last artifact executed
                  sc_starts |-> 0,           \* ghost: _self_correct_execution calls of the last attempt
                  returned |-> ""]

ProcUnchanged ==
    UNCHANGED <<sb, ws_manager, required_infos, stop, agents, steps, reflection_log, execution_memory, iteration,
                max_iterations, consecutive_failures, pc, cur, result, success,
                history, last, revise_log, sc>>

\* lines 485-488: the answer asks for clarification and is returned as it is
ProcessClarify ==
    /\ proc.pc = "loop"
    /\ ProcessLoopContinues(proc.attempt, stop)
    /\ proc' = [proc EXCEPT !.pc = "done", !.returned = "clarification"]
    /\ ProcUnchanged

\* lines 489-510: an answer without a code block is asked again, at most three
\* times in a row and only for a prompt that asks for code; otherwise it is returned
ProcessNoCode ==
    /\ proc.pc = "loop"
    /\ ProcessLoopContinues(proc.attempt, stop)
    /\ IF proc.no_code_retries < 3 /\ proc.keyword
       THEN proc' = [proc EXCEPT !.no_code_retries = @ + 1, !.attempt = @ + 1]
       ELSE proc' = [proc EXCEPT !.pc = "done", !.returned = "answer"]
    /\ ProcUnchanged

\* lines 511-560: the artifact is executed, self-corrected if need be, and the
\* loop is left on success
ProcessExecute ==
    /\ proc.pc = "loop"
    /\ ProcessLoopContinues(proc.attempt, stop)
    /\ \E v \in AttemptVerdicts(proc.attempt + 1) :
          proc' = [proc EXCEPT
                     !.no_code_retries = 0,
                     !.success = v.success,
                     !.exec_success = v.exec_success,
                     !.executed = TRUE,
                     !.ran_feedback = v.ran_feedback,
                     !.sc_starts = v.sc_starts,
                     !.attempt = IF v.exec_success THEN @ ELSE @ + 1,
                     !.pc = IF v.exec_success THEN "done" ELSE "loop",
                     !.returned = IF v.exec_success THEN "answer" ELSE ""]
    /\ ProcUnchanged

\* line 479 false and lines 561-565: the budget is used up, or the stop flag
\* is set; with the flag set before the first attempt `reasoning` is unbound
ProcessExit ==
    /\ proc.pc = "loop"
    /\ ~ProcessLoopContinues(proc.attempt, stop)
    /\ proc' = [proc EXCEPT
                  !.pc = IF proc.attempt = process_max_attempts \/ proc.attempt > 0
                         THEN "done" ELSE "fault",
                  !.returned = IF proc.attempt = process_max_attempts THEN "apology"
                               ELSE IF proc.attempt > 0 THEN "answer" ELSE ""]
    /\ ProcUnchanged

\* the stop flag is set while the call is suspended at an await
ProcessStop ==
    /\ proc.pc = "loop"
    /\ ~stop
    /\ stop' = TRUE
    /\ UNCHANGED <<sb, ws_manager, required_infos, agents, steps, reflection_log, execution_memory, iteration,
                   max_iterations, consecutive_failures, pc, cur, result, success,
                   history, last, revise_log, sc, proc>>

NextProcess == ProcessClarify \/ ProcessNoCode \/ ProcessExecute \/ ProcessExit \/ ProcessStop

SpecProcess == InitProcess /\ [][NextProcess]_vars

\* the worker's observable success flag, as execute_step reads it at lines
\* 313 and 342: the value of self.success
get_success == proc.success

\* C29: when a process call has returned and the feedback of the last
\* artifact it executed holds an error indicator, the worker's success flag,
\* which the dispatcher reads, is false.
C29_ErrorIndicatorMeansFailure ==
    (proc.pc = "done" /\ proc.executed /\ has_error_in_output(proc.ran_feedback))
        => ~get_success

\* one step of the call itself: the coroutine is resumed after every await
ProcessStep == ProcessClarify \/ ProcessNoCode \/ ProcessExecute \/ ProcessExit

SpecProcessLive == InitProcess /\ [][NextProcess]_vars /\ WF_vars(ProcessStep)

\* C39: a call of process terminates for every sequence of generation and
\* execution outcomes: it makes at most 7 outer attempts (each step of the
\* call either leaves the loop or counts one more attempt), each outer
\* attempt starts the self-correction loop at most twice, and the call
\* returns the fixed could-not-complete message exactly when the 7 attempts
\* are used up.
C39_ProcessTerminates ==
    /\ [](/\ proc.attempt <= 7
          /\ proc.sc_starts <= 2
          /\ (proc.pc = "done" /\ proc.attempt = 7) => proc.returned = "apology"
          /\ proc.returned = "apology" => (proc.pc = "done" /\ proc.attempt = 7))
    /\ [][(proc.pc = "loop" /\ proc' # proc)
            => (proc'.pc # "loop" \/ proc'.attempt = proc.attempt + 1)]_vars
    /\ <>(proc.pc # "loop")

\* the seventh attempt started the self-correction loop twice and failed
C39_Witness ==
    /\ proc.pc = "done"
    /\ proc.attempt = 7
    /\ proc.returned = "apology"
    /\ proc.sc_starts = 2

(***************************************************************************)
(* The loop head on its own (specification SpecContext): one evaluation of *)
(* lines 786-811 on a plan whose first steps are settled, with answers     *)
(* short and longer than the previews of lines 806 and 811.                *)
(***************************************************************************)
RECURSIVE Repeat(_, _)
Repeat(t, n) == IF n = 0 THEN "" ELSE t \o Repeat(t, n - 1)

\* an answer of 320 characters
AnswerLong == Repeat("0123456789abcdef", 20)

ContextTaskLists ==
    {<<Task("write a.py", "coder", NeedAbsent),
       Task("write b.py", "coder", NeedList(<<PyStr("1")>>))>>,
     <<Task("write a.py", "coder", NeedAbsent),
       Task("port it", "coder", NeedList(<<PyInt(1)>>))>>,
     <<Task("write a.py", "coder", NeedAbsent),
       Task("search docs", "web", NeedAbsent),
       Task("write b.py", "coder", NeedList(<<PyStr("1")>>))>>,
     <<Task("write a.py", "coder", NeedAbsent),
       Task("search docs", "web", NeedAbsent),
       Task("port it", "coder", NeedList(<<PyInt(1)>>))>>,
     <<Task("write a.py", "coder", NeedAbsent),
       Task("search docs", "web", NeedAbsent),
       Task("merge", "coder", NeedList(<<PyInt(1), PyStr("2")>>))>>,
     <<Task("write a.py", "coder", NeedAbsent),
       Task("write b.py", "coder", NeedList(<<PyStr("1")>>)),
       Task("port it", "coder", NeedList(<<PyInt(2)>>))>>,
     <<Task("search docs", "web", NeedList(<<PyStr("99")>>)),
       Task("write a.py", "coder", NeedAbsent),
       Task("port it", "coder", NeedStr("2"))>>}

\* how a step that is no longer pending ended
SettledOutcomes == {"short", "long", "failed"}

Settled(step, how) ==
    IF how = "failed"
    THEN [step EXCEPT !.status = "failed", !.attempts = step.max_attempts,
                      !.error = "Error: " \o FaultText]
    ELSE [step EXCEPT !.status = "completed",
                      !.result = IF how = "long" THEN AnswerLong ELSE AnswerOk]

\* the iterations the first n steps have used: one for a success, max_attempts for a failure
RECURSIVE IterationsUsed(_, _)
IterationsUsed(plan, n) ==
    IF n = 0 THEN 0
    ELSE IterationsUsed(plan, n - 1)
         + (IF plan[n].status = "failed" THEN plan[n].max_attempts ELSE 1)

\* a run observed at a loop head: the first n steps were dispatched in plan
\* order and are settled, each with its dependencies met when it ran
InitContext ==
    /\ agents = <<"coder", "web", "file", "casual">>
    /\ stop = FALSE
    /\ proc = NoProc
    /\ sc = NoSC
    /\ required_infos = <<>>
    /\ ws_manager = "absent"
    /\ sb = NoSB
    /\ \E agent_tasks \in ContextTaskLists : \E n \in 0..(Len(agent_tasks) - 1) :
       \E how \in [1..n -> SettledOutcomes] :
          LET plan == create_plan_from_tasks(agent_tasks)
              now == [i \in 1..Len(plan) |->
                        IF i <= n THEN Settled(plan[i], how[i]) ELSE plan[i]]
          IN /\ \A i \in 1..n : DepsMet(now, i)
             /\ steps = now
             /\ iteration = IterationsUsed(now, n)
             /\ max_iterations = IterationBudget(now)
             /\ consecutive_failures =
                   IF n > 0 /\ now[n].status = "failed" THEN now[n].max_attempts ELSE 0
             /\ cur = n
             /\ result = IF n = 0 THEN "" ELSE IF now[n].status = "failed" THEN now[n].error
                                              ELSE now[n].result
             /\ success = (n > 0 /\ now[n].status = "completed")
    /\ reflection_log = <<>>
    /\ execution_memory = <<>>
    /\ pc = "loop"
    /\ history = <<>>
    /\ last = NoDispatch
    /\ revise_log = <<>>

NextContext == LoopHead

SpecContext == InitContext /\ [][NextContext]_vars

\* the plan with every dependency identifier written as a string
StrDeps(plan) ==
    [i \in 1..Len(plan) |->
        [plan[i] EXCEPT !.dependencies =
            [d \in 1..Len(plan[i].dependencies) |-> PyStr(str(plan[i].dependencies[d]))]]]

\* C32: a dependency identifier refers to the same step whether it is given
\* as an integer or as a string: the step get_next_step returns, and the
\* context run_loop collects for the step it dispatches, are those of the
\* plan with every dependency identifier written as a string.
C32_DependenciesMatchedAsStrings ==
    /\ get_next_step(steps) = get_next_step(StrDeps(steps))
    /\ pc = "execute" => required_infos = RequiredInfos(StrDeps(steps), cur)

\* ---------------------------------------------------------------------------
\* The run under each setting of the notifier (lines 99-107, 121-166)
\* ---------------------------------------------------------------------------

\* the plans the run is followed on under every notifier setting
NotifyTaskLists ==
    {<<Task("write a.py", "coder", NeedAbsent)>>,
     <<Task("write a.py", "coder", NeedAbsent),
       Task("write b.py", "coder", NeedList(<<PyStr("1")>>))>>,
     <<Task("search docs", "web", NeedAbsent),
       Task("port it", "coder", NeedList(<<PyInt(1)>>))>>}

\* __init__ with ws_manager given or left None, then create_plan_from_tasks
InitNotify ==
    /\ agents = <<"coder", "web", "file", "casual">>
    /\ stop = FALSE
    /\ proc = NoProc
    /\ required_infos = <<>>
    /\ ws_manager \in NotifierModes
    /\ sb = NoSB
    /\ \E agent_tasks \in NotifyTaskLists : steps = create_plan_from_tasks(agent_tasks)
    /\ reflection_log = <<>>
    /\ execution_memory = <<>>
    /\ iteration = 0
    /\ max_iterations = IterationBudget(steps)
    /\ consecutive_failures = 0
    /\ pc = "loop"
    /\ cur = 0
    /\ result = ""
    /\ success = FALSE
    /\ history = <<>>
    /\ last = NoDispatch
    /\ revise_log = <<>>
    /\ sc = NoSC

NextNotify == LoopHead \/ ExecuteStep \/ ReflectRevise

SpecNotify == InitNotify /\ [][NextNotify]_vars

\* one step of the run as it would be taken under notifier setting ws
NextWith(ws) == LoopHeadWith(ws) \/ ExecuteStepWith(ws) \/ ReflectReviseWith(ws)

\* C31: the run behaves identically with and without a notifier: every step
\* the run takes under its notifier setting (absent, present, failing on
\* every call) is, from the same plan state and with the same worker
\* outcome, the step it takes under each other setting, so the dispatched
\* steps and the final statuses, attempts, results and reflection log agree.
C31_NotifierDoesNotInterfere == [][\A m \in NotifierModes : NextWith(m)]_vars

C31_Witness ==
    /\ ws_manager = "failing"
    /\ pc = "done"
    /\ Len(reflection_log) >= 2
    /\ \E i \in 1..Len(steps) : steps[i].status = "completed"
    /\ \E i \in 1..Len(steps) : steps[i].status = "failed"

\* ---------------------------------------------------------------------------
\* One call of execute_modules_with_sandbox (code_agent.py lines 240-299)
\* ---------------------------------------------------------------------------

\* self.tools in dict order, cut to the four kinds of tool the function
\* tells apart: sandboxed (bash, python), interpreted or saved (c), saved (html)
ToolOrder == <<"bash", "python", "c", "html">>

\* sandbox_execute returns a verdict: lines 102-105
Sandboxed(name, sandbox) == sandbox /\ name \in {"python", "bash"}

\* _is_save_only_language, cut to the tools of ToolOrder
is_save_only_language(name) == name \in {"c", "html"}

\* what load_exec_block finds in the answer for each tool: the number of its
\* blocks (0 for None) and whether a save path is given
Blocks(n, save) == [n |-> n, save |-> save]
SandboxAnswers ==
    {<<Blocks(1, FALSE), Blocks(2, TRUE), Blocks(0, FALSE), Blocks(1, TRUE)>>,
     <<Blocks(0, FALSE), Blocks(2, FALSE), Blocks(0, FALSE), Blocks(0, FALSE)>>,
     <<Blocks(2, FALSE), Blocks(0, FALSE), Blocks(1, FALSE), Blocks(0, FALSE)>>,
     <<Blocks(0, FALSE), Blocks(1, FALSE), Blocks(1, TRUE), Blocks(0, FALSE)>>,
     <<Blocks(0, FALSE), Blocks(0, FALSE), Blocks(0, FALSE), Blocks(1, TRUE)>>}

SavedFeedback == "[success] File saved"

\* the test of lines 277 and 286 never taken
StopsAtFailureNever(ok) == FALSE

\* lines 277 and 286: `if not success`
StopsAtFailure(ok) == ~ok

\* the worker's success flag is whatever an earlier call left in it
InitSandbox ==
    /\ agents = <<"coder", "web", "file", "casual">>
    /\ stop = FALSE
    /\ proc = NoProc
    /\ sc = NoSC
    /\ required_infos = <<>>
    /\ ws_manager = "absent"
    /\ steps = <<>>
    /\ reflection_log = <<>>
    /\ execution_memory = <<>>
    /\ iteration = 0
    /\ max_iterations = 0
    /\ consecutive_failures = 0
    /\ pc = "sandbox"
    /\ cur = 0
    /\ result = ""
    /\ success = FALSE
    /\ history = <<>>
    /\ last = NoDispatch
    /\ revise_log = <<>>
    /\ \E answer \in SandboxAnswers : \E sandbox \in BOOLEAN :
       \E inst \in {{}, {"foo"}} : \E flag \in BOOLEAN :
          sb = [pc |-> "start",
                answer |-> answer,
                sandbox |-> sandbox,        \* self.sandbox is not None
                installed_packages |-> inst,
                success |-> flag,           \* self.success
                tool |-> 1,                 \* position in self.tools
                block |-> 0,                \* position in blocks
                feedback |-> "",
                ret |-> [returned |-> FALSE, ok |-> FALSE, feedback |-> ""],
                \* ghost: one record per block executed
                log |-> <<>>]

SandboxUnchanged ==
    UNCHANGED <<ws_manager, required_infos, proc, stop, agents, steps, reflection_log,
                execution_memory, iteration, max_iterations, consecutive_failures, pc,
                cur, result, success, history, last, revise_log, sc>>

\* lines 241-247
SandboxStart ==
    /\ sb.pc = "start"
    /\ sb' = [sb EXCEPT !.pc = "tool", !.success = TRUE]
    /\ SandboxUnchanged

\* lines 249-265: the next tool; a tool without blocks is passed over, a
\* save-only tool with a save path saves and executes nothing
SandboxTool ==
    /\ sb.pc = "tool"
    /\ sb.tool <= Len(ToolOrder)
    /\ LET b == sb.answer[sb.tool]
       IN IF b.n = 0
          THEN sb' = [sb EXCEPT !.feedback = "", !.tool = @ + 1]
          ELSE IF b.save /\ is_save_only_language(ToolOrder[sb.tool])
          THEN sb' = [sb EXCEPT !.feedback = SavedFeedback, !.tool = @ + 1]
          ELSE sb' = [sb EXCEPT !.feedback = "", !.pc = "block", !.block = 1]
    /\ SandboxUnchanged

\* lines 266-290: one block; a sandboxed block that fails on a missing module
\* is run once more after a successful install; a failing block ends the call
SandboxBlock ==
    /\ sb.pc = "block"
    /\ LET name == ToolOrder[sb.tool]
           k == Len(sb.log) + 1
       IN \E r1 \in ExecResults(k) : \E r2 \in ExecResults(k) :
          \E install_success \in BOOLEAN :
             LET boxed == Sandboxed(name, sb.sandbox)
                 tried == /\ boxed
                          /\ ~r1[1]
                          /\ Contains(r1[2], "No module named")
                          /\ InstallAttempted(r1[2], sb.installed_packages)
                 again == boxed /\ SandboxReinstalls(r1, sb.installed_packages, install_success)
                 r == IF again THEN r2 ELSE r1
                 s1 == [sb EXCEPT
                          !.installed_packages =
                              IF again THEN @ \cup {QuotedModuleName(r1[2])} ELSE @,
                          !.feedback = r[2],
                          !.log = Append(@, [tool |-> sb.tool, block |-> sb.block,
                                             runs |-> IF again THEN 2 ELSE 1,
                                             installs |-> IF tried THEN 1 ELSE 0,
                                             ok |-> r[1], feedback |-> r[2]])]
             IN IF StopsAtFailure(r[1])
                THEN sb' = [s1 EXCEPT !.success = FALSE, !.pc = "done",
                                      !.ret = [returned |-> TRUE, ok |-> FALSE,
                                               feedback |-> r[2]]]
                ELSE IF sb.block < sb.answer[sb.tool].n
                THEN sb' = [s1 EXCEPT !.block = @ + 1]
                ELSE sb' = [s1 EXCEPT !.pc = "tool", !.tool = @ + 1]
    /\ SandboxUnchanged

\* lines 293-299: every tool is done
SandboxReturn ==
    /\ sb.pc = "tool"
    /\ sb.tool > Len(ToolOrder)
    /\ sb' = [sb EXCEPT !.pc = "done",
                        !.ret = [returned |-> TRUE, ok |-> TRUE, feedback |-> sb.feedback]]
    /\ SandboxUnchanged

NextSandbox == SandboxStart \/ SandboxTool \/ SandboxBlock \/ SandboxReturn

SpecSandbox == InitSandbox /\ [][NextSandbox]_vars

\* the blocks of the answer that are to be executed
RECURSIVE BlocksToRun(_, _)
BlocksToRun(answer, t) ==
    IF t = 0 THEN 0
    ELSE BlocksToRun(answer, t - 1)
         + (IF answer[t].save /\ is_save_only_language(ToolOrder[t]) THEN 0 ELSE answer[t].n)

\* C40: execute_modules_with_sandbox stops at the first failing block: a
\* block is executed once, or twice with one automatic install in between,
\* and once a block's execution has failed no later block is executed, the
\* worker's success flag is false and the call has returned failure with the
\* failing block's feedback.
C40_StopsAtFirstFailingBlock ==
    /\ \A k \in 1..Len(sb.log) :
          /\ sb.log[k].runs \in {1, 2}
          /\ sb.log[k].installs <= 1
          /\ sb.log[k].runs = 2 => sb.log[k].installs = 1
          /\ ~sb.log[k].ok =>
                /\ k = Len(sb.log)
                /\ sb.pc = "done"
                /\ ~sb.success
                /\ sb.ret = [returned |-> TRUE, ok |-> FALSE, feedback |-> sb.log[k].feedback]
    /\ (sb.ret.returned /\ sb.ret.ok) => Len(sb.log) = BlocksToRun(sb.answer, Len(ToolOrder))

\* a second block failed after an install and a second run, with a block left over
C40_Witness ==
    /\ sb.pc = "done"
    /\ Len(sb.log) = 2
    /\ sb.log[1].ok
    /\ ~sb.log[2].ok
    /\ sb.log[2].runs = 2
    /\ BlocksToRun(sb.answer, Len(ToolOrder)) > 2

====
